---- MODULE Spec2Model ----
(***************************************************************************)
(* Path and tree algebra of arxiv-marxdown: site.walk / site.get_tree, the *)
(* link resolver of render.py, the sitemap merger of arxiv.sitemap.build,  *)
(* the URLDecoder of arxiv.sitemap.load, the XML flattening of             *)
(* arxiv.sitemap.serialize, the brace escaping of render.py and the        *)
(* request handlers of arxiv.marxdown.routes.                              *)
(*                                                                         *)
(* Python strings are sequences of one-character strings, so that split,  *)
(* strip, startswith and concatenation are computed as Python computes     *)
(* them.  A Python dict is a sequence of [k, v] entries in insertion       *)
(* order with pairwise distinct keys; a dict with fixed string keys (a     *)
(* tree node, a metadata block) is a record whose DOMAIN is its key set.   *)
(***************************************************************************)
EXTENDS Integers, Sequences, FiniteSets, TLC

(* ------------------------------ bounds -------------------------------- *)

\* Largest number of page files one site holds.
MaxPages == 3

\* Largest number of links and images one rendered page holds.
MaxLinks == 1

\* Largest number of sites a spec file lists.
MaxSites == 2

\* Largest number of texts, links and images in the content of a page.
MaxPieces == 2

(* ------------------------- Python str methods ------------------------- *)

\* str.startswith(p)
StartsWith(s, p) ==
    /\ Len(p) <= Len(s)
    /\ SubSeq(s, 1, Len(p)) = p

\* str.endswith(p)
EndsWith(s, p) ==
    /\ Len(p) <= Len(s)
    /\ SubSeq(s, Len(s) - Len(p) + 1, Len(s)) = p

\* The positions at which sub occurs in s (sub is not empty).
Occurrences(s, sub) ==
    { i \in 1..(Len(s) - Len(sub) + 1) : SubSeq(s, i, i + Len(sub) - 1) = sub }

\* sub in s
Contains(s, sub) == Occurrences(s, sub) # {}

\* str.rstrip(c) for a one-character c
RStrip(s, c) ==
    LET keep == { i \in 1..Len(s) : s[i] # c }
        last == IF keep = {} THEN 0 ELSE CHOOSE i \in keep : \A j \in keep : j <= i
    IN SubSeq(s, 1, last)

\* str.lstrip(c) for a one-character c
LStrip(s, c) ==
    LET keep == { i \in 1..Len(s) : s[i] # c }
        first == IF keep = {} THEN Len(s) + 1
                 ELSE CHOOSE i \in keep : \A j \in keep : i <= j
    IN SubSeq(s, first, Len(s))

\* str.strip(c) for a one-character c
Strip(s, c) == LStrip(RStrip(s, c), c)

\* str.split(sep, 1): a list of one or two strings
Split1(s, sep) ==
    LET occ == Occurrences(s, sep)
    IN IF occ = {} THEN << s >>
       ELSE LET i == CHOOSE x \in occ : \A y \in occ : x <= y
            IN << SubSeq(s, 1, i - 1), SubSeq(s, i + Len(sep), Len(s)) >>

\* str.rsplit(sep, 1): a list of one or two strings
RSplit1(s, sep) ==
    LET occ == Occurrences(s, sep)
    IN IF occ = {} THEN << s >>
       ELSE LET i == CHOOSE x \in occ : \A y \in occ : y <= x
            IN << SubSeq(s, 1, i - 1), SubSeq(s, i + Len(sep), Len(s)) >>

\* str.split(c) for a one-character c: every piece, empty ones included
RECURSIVE SplitAll(_, _)
SplitAll(s, c) ==
    LET two == Split1(s, << c >>)
    IN IF Len(two) = 1 THEN << s >>
       ELSE << two[1] >> \o SplitAll(two[2], c)

\* c.join(parts) for a one-character c
RECURSIVE Join(_, _)
Join(parts, c) ==
    IF Len(parts) = 0 THEN << >>
    ELSE IF Len(parts) = 1 THEN parts[1]
    ELSE parts[1] \o << c >> \o Join(Tail(parts), c)

(* ---------------------------- Python dicts ---------------------------- *)

\* key in d
DictHas(d, key) == \E i \in 1..Len(d) : d[i].k = key

\* d[key]
DictGet(d, key) == d[CHOOSE i \in 1..Len(d) : d[i].k = key].v

\* d[key] = val: in place when the key exists, appended otherwise
DictSet(d, key, val) ==
    IF DictHas(d, key)
    THEN [ i \in 1..Len(d) |-> IF d[i].k = key THEN [k |-> key, v |-> val] ELSE d[i] ]
    ELSE Append(d, [k |-> key, v |-> val])

\* The keys of d
DictKeys(d) == { d[i].k : i \in 1..Len(d) }

\* node.update(fields): the fields given replace or extend those of node
NodeUpdate(node, fields) == fields @@ node

\* The node reached from the mapping d by the chain of keys
RECURSIVE GetAt(_, _)
GetAt(d, chain) ==
    IF Len(chain) = 1 THEN DictGet(d, chain[1])
    ELSE GetAt(DictGet(d, chain[1]).children, Tail(chain))

\* The mapping d with the node at the chain of keys replaced or inserted
RECURSIVE SetAt(_, _, _)
SetAt(d, chain, node) ==
    IF Len(chain) = 1 THEN DictSet(d, chain[1], node)
    ELSE LET c == DictGet(d, chain[1])
         IN DictSet(d, chain[1],
                    [c EXCEPT !.children = SetAt(c.children, Tail(chain), node)])

(* ------------------------------ literals ------------------------------ *)

J2 == << ".", "j", "2" >>
Index == << "i", "n", "d", "e", "x" >>
Foo == << "f", "o", "o" >>
Baz == << "b", "a", "z" >>
SlashHelp == << "/", "h", "e", "l", "p" >>

\* get_pages_path(): an absolute path
PagesPath == << "/", "s", "/", "p", "a", "g", "e", "s" >>

\* The values SITE_URL_PREFIX takes
Prefixes == { << "/" >>, << >>, SlashHelp, SlashHelp \o << "/" >>,
              << "h", "e", "l", "p" >> }

\* The value of SITE_HUMAN_NAME
SiteHumanName == << "a", "r", "X", "i", "v", " ", "H", "e", "l", "p" >>

\* The orders in which os.walk (top down) can visit the directories
DirOrders ==
    { << << >>, << "/", "a" >>, << "/", "a", "/", "b" >>, << "/" >> \o Baz >>,
      << << >>, << "/" >> \o Baz, << "/", "a" >>, << "/", "a", "/", "b" >> >> }

\* The page files a site may hold: directory (relative) and file name
Files ==
    { [dir |-> << >>, fname |-> Index \o J2],
      [dir |-> << >>, fname |-> Foo \o J2],
      [dir |-> << >>, fname |-> << "a" >> \o J2],
      [dir |-> << "/", "a" >>, fname |-> Index \o J2],
      [dir |-> << "/", "a" >>, fname |-> << "b" >> \o J2],
      [dir |-> << "/", "a", "/", "b" >>, fname |-> Index \o J2],
      [dir |-> << "/" >> \o Baz, fname |-> Index \o J2] }

\* The leading characters of the timestamps of the model
IsoStamp == << "2", "0", "1", "9", "-" >>

\* The response blocks a page's front matter may give (none: no block);
\* the block with the largest included status is tried on one file
Responses(f) ==
    IF f.fname = Foo \o J2
    THEN { "none", "deleted", "status299", "status300" }
    ELSE { "none", "deleted", "status300" }

\* The metadata stored for the page at path, with the response block named
Metadata(path, resp) ==
    LET base == [title |-> << "T" >> \o path, modified |-> IsoStamp \o path]
    IN CASE resp = "none" -> base
         [] resp = "deleted" -> base @@ [response |-> [deleted |-> TRUE]]
         [] resp = "status299" ->
              base @@ [response |-> [deleted |-> FALSE, status |-> 299]]
         [] resp = "status300" -> base @@ [response |-> [status |-> 300]]

VARIABLES
    \* site.get_tree
    prefix,     \* SITE_URL_PREFIX
    yielded,    \* the files walk has yielded, each with its triple
    tree,       \* get_tree's tree
    pc,         \* "walking", "returned" or "raised"
    \* render: ReferenceProcessor
    page_path,  \* the page_path of the page being rendered
    links,      \* the attributes translated so far
    source,     \* the content given to render: text, links and images
    html,       \* what markdown made of it (<< >>: nothing yet)
    output,     \* what render returns (<< >>: nothing yet)
    \* arxiv.sitemap
    specs,      \* the sites of the spec file
    verdicts,   \* per site validated: "ok" or the error raised
    built,      \* per site handled: the tree get_tree returned, and merged
    sitemap,    \* do_create_site_map's tree
    out_file,   \* the sitemap document written (<< >>: none)
    url_root,   \* load_urlset's url_root
    urlset,     \* the URLSet loaded
    xml,        \* the url elements of the XML sitemap
    mpc,        \* "validating", "invalid", "building", "failed", "written",
                \* "loaded" or "served"
    \* arxiv.marxdown.routes
    site_pages,     \* the pages stored under the pages path of the build
    static_index,   \* the static files the index knows
    requests,       \* the requests made: endpoint and page_path
    responses       \* the response to each of them

treeVars == << prefix, yielded, tree, pc >>
linkVars == << page_path, links, source, html, output >>
mapVars == << specs, verdicts, built, sitemap, out_file, url_root, urlset, xml, mpc >>
serveVars == << site_pages, static_index, requests, responses >>
vars == << treeVars, linkVars, mapVars, serveVars >>

(* ------------------------------ site.walk ----------------------------- *)

\* fname.rsplit('.j2', 1)[0]
ChildName(fname) == RSplit1(fname, J2)[1]

\* parent.split(get_pages_path().rstrip("/"), 1)[1]
RelParent(parent) == Split1(parent, RStrip(PagesPath, "/"))[2]

\* if not this_parent.startswith("/"): this_parent = "/" + this_parent
LeadingSlash(s) ==
    IF ~StartsWith(s, << "/" >>) THEN << "/" >> \o s ELSE s

\* Mutant of CollapseIndex: an index page keeps its own segment
CollapseIndexNever(this_parent, child) ==
    [parent |-> this_parent, child |-> child]

\* /foo/bar, index -> /foo, bar
CollapseIndex(this_parent, child) ==
    IF child = Index
    THEN LET sp == RSplit1(this_parent, << "/" >>)
         IN [parent |-> sp[1], child |-> sp[2]]
    ELSE [parent |-> this_parent, child |-> child]

\* Mutant of Pattern: the double slash under the bare parent is not avoided
PatternDoubleSlash(pfx, this_parent, child) ==
    RStrip(pfx, "/") \o this_parent \o << "/" >> \o child

\* The URL pattern of a page, before its trailing slashes are stripped
Pattern(pfx, this_parent, child) ==
    IF this_parent = << "/" >>
    THEN RStrip(pfx, "/") \o << "/" >> \o child
    ELSE RStrip(pfx, "/") \o this_parent \o << "/" >> \o child

\* One iteration of walk's inner loop: the triple it yields for the file
\* fname found by os.walk in the directory parent.
WalkEntry(pfx, parent, fname, meta) ==
    LET rel_parent == RelParent(parent)
        c == CollapseIndex(LeadingSlash(rel_parent), ChildName(fname))
        this_parent == LeadingSlash(c.parent)
        path == LStrip(rel_parent \o << "/" >> \o ChildName(fname), "/")
    IN [parent |-> pfx \o this_parent,
        pattern |-> RStrip(Pattern(pfx, this_parent, c.child), "/"),
        path |-> path,
        metadata |-> meta]

\* The triple walk yields for a file of the site
Yield(pfx, f) == WalkEntry(pfx, PagesPath \o f.dir, f.fname, f.meta)

\* load_metadata's argument for a file: its storage-relative page path
PagePath(f) == LStrip(f.dir \o << "/" >> \o RSplit1(f.fname, J2)[1], "/")

(* ---------------------------- site.get_tree --------------------------- *)

\* get_tree's own prefix: the configured one, with a leading slash
TreePrefix(pfx) ==
    IF ~StartsWith(pfx, << "/" >>) THEN << "/" >> \o pfx ELSE pfx

\* A tree whose root is keyed and pathed by the bare slash
InitialTreeAtSlash(pfx) ==
    << [k |-> << "/" >>,
        v |-> [children |-> << >>, title |-> SiteHumanName,
               path |-> << "/" >>]] >>

\* The tree before any page is added
InitialTree(pfx) ==
    << [k |-> TreePrefix(pfx),
        v |-> [children |-> << >>, title |-> SiteHumanName,
               path |-> TreePrefix(pfx)]] >>

\* parent.split(prefix, 1) has a second element
SubpathsDefined(tpfx, parent) == Len(Split1(parent, tpfx)) = 2

\* The loop of _get_subpaths: the sub-paths accumulated over parts[i..]
RECURSIVE SubpathLoop(_, _, _)
SubpathLoop(parts, i, subpath) ==
    IF i > Len(parts) THEN {}
    ELSE LET s1 == RStrip(subpath, "/") \o << "/" >> \o Strip(parts[i], "/")
             s2 == IF Len(s1) > 1 /\ EndsWith(s1, << "/" >>)
                   THEN SubSeq(s1, 1, Len(s1) - 1) ELSE s1
         IN { s2 } \cup SubpathLoop(parts, i + 1, s2)

\* sorted(S, key=len)
RECURSIVE SortedByLen(_)
SortedByLen(S) ==
    IF S = {} THEN << >>
    ELSE LET m == CHOOSE x \in S : \A y \in S : Len(x) <= Len(y)
         IN << m >> \o SortedByLen(S \ { m })

\* Mutant of GetSubpaths: only the root is an ancestor
GetSubpathsRootOnly(tpfx, parent) == << tpfx >>

\* _get_subpaths(parent)
GetSubpaths(tpfx, parent) ==
    LET parent_parts ==
            << tpfx >> \o SplitAll(Strip(Split1(parent, tpfx)[2], "/"), "/")
    IN SortedByLen(SubpathLoop(parent_parts, 1, << >>))

\* Mutant of Skipped: the status of the page is not looked at
SkippedDeletedOnly(metadata) ==
    /\ "response" \in DOMAIN metadata
    /\ "deleted" \in DOMAIN metadata.response
    /\ metadata.response.deleted

\* The page is left out of the tree
Skipped(metadata) ==
    /\ "response" \in DOMAIN metadata
    /\ \/ /\ "deleted" \in DOMAIN metadata.response
          /\ metadata.response.deleted
       \/ /\ "status" \in DOMAIN metadata.response
          /\ metadata.response.status > 299

\* The descent along the sub-paths: the tree with the missing ancestors
\* created, and the chain of keys to the node reached
RECURSIVE Descend(_, _, _, _)
Descend(t, cursor, subpaths, i) ==
    IF i > Len(subpaths) THEN [tree |-> t, cursor |-> cursor]
    ELSE LET subtree == GetAt(t, cursor)
             subpath == subpaths[i]
         IN IF subpath # subtree.path
            THEN LET t1 == IF ~DictHas(subtree.children, subpath)
                           THEN SetAt(t, cursor \o << subpath >>,
                                      [children |-> << >>, path |-> subpath])
                           ELSE t
                 IN Descend(t1, cursor \o << subpath >>, subpaths, i + 1)
            ELSE Descend(t, cursor, subpaths, i + 1)

\* Mutant of Commit: the page is always written as a child of the node
\* reached
CommitAlwaysChild(t, cursor, pattern, metadata) ==
    SetAt(t, cursor \o << pattern >>,
          [title |-> metadata.title, path |-> pattern,
           modified |-> metadata.modified, children |-> << >>])

\* Mutant of Commit: a child that has a title already keeps it
CommitFirstWins(t, cursor, pattern, metadata) ==
    LET subtree == GetAt(t, cursor)
    IN IF pattern = subtree.path
       THEN SetAt(t, cursor,
                  NodeUpdate(subtree, [title |-> metadata.title,
                                       modified |-> metadata.modified]))
       ELSE IF /\ DictHas(subtree.children, pattern)
               /\ "title" \in DOMAIN DictGet(subtree.children, pattern)
       THEN t
       ELSE SetAt(t, cursor \o << pattern >>,
                  [title |-> metadata.title, path |-> pattern,
                   modified |-> metadata.modified,
                   children |-> IF DictHas(subtree.children, pattern)
                                THEN DictGet(subtree.children, pattern).children
                                ELSE << >>])

\* Mutant of Commit: a child that exists already is replaced by a new node
\* without children
CommitNewChild(t, cursor, pattern, metadata) ==
    LET subtree == GetAt(t, cursor)
    IN IF pattern = subtree.path
       THEN SetAt(t, cursor,
                  NodeUpdate(subtree, [title |-> metadata.title,
                                       modified |-> metadata.modified]))
       ELSE SetAt(t, cursor \o << pattern >>,
                  [title |-> metadata.title, path |-> pattern,
                   modified |-> metadata.modified, children |-> << >>])

\* The last step of the loop body: the page is written at the node reached
\* or at its child keyed by the pattern
Commit(t, cursor, pattern, metadata) ==
    LET subtree == GetAt(t, cursor)
    IN IF pattern = subtree.path
       THEN SetAt(t, cursor,
                  NodeUpdate(subtree, [title |-> metadata.title,
                                       modified |-> metadata.modified]))
       ELSE IF DictHas(subtree.children, pattern)
       THEN SetAt(t, cursor \o << pattern >>,
                  NodeUpdate(DictGet(subtree.children, pattern),
                             [title |-> metadata.title,
                              modified |-> metadata.modified,
                              path |-> pattern]))
       ELSE SetAt(t, cursor \o << pattern >>,
                  [title |-> metadata.title, path |-> pattern,
                   modified |-> metadata.modified, children |-> << >>])

\* The body of get_tree's loop raises (IndexError in _get_subpaths, or
\* KeyError on a missing title or modified)
Raises(pfx, y) ==
    /\ ~Skipped(y.metadata)
    /\ \/ ~SubpathsDefined(TreePrefix(pfx), y.parent)
       \/ "title" \notin DOMAIN y.metadata
       \/ "modified" \notin DOMAIN y.metadata

\* Mutant of AddPage: the ancestors of a skipped page are created
AddPageAncestorsOfSkipped(t, pfx, y) ==
    IF Skipped(y.metadata)
    THEN IF SubpathsDefined(TreePrefix(pfx), y.parent)
         THEN Descend(t, << TreePrefix(pfx) >>,
                      GetSubpaths(TreePrefix(pfx), y.parent), 1).tree
         ELSE t
    ELSE LET d == Descend(t, << TreePrefix(pfx) >>,
                          GetSubpaths(TreePrefix(pfx), y.parent), 1)
         IN Commit(d.tree, d.cursor, y.pattern, y.metadata)

\* The body of get_tree's loop for one triple of walk
AddPage(t, pfx, y) ==
    IF Skipped(y.metadata) THEN t
    ELSE LET d == Descend(t, << TreePrefix(pfx) >>,
                          GetSubpaths(TreePrefix(pfx), y.parent), 1)
         IN Commit(d.tree, d.cursor, y.pattern, y.metadata)

(* --------------------------- render: linker --------------------------- *)

\* Optional values: None, and a value that is given
None == << >>
Some(x) == << x >>

\* The site name the linker is made for
SiteName == << "n", "a", "m", "e" >>

FromSitemap ==
    << ".", "f", "r", "o", "m", "_", "s", "i", "t", "e", "m", "a", "p" >>

StaticRoute == << ".", "s", "t", "a", "t", "i", "c" >>

PagePathKwarg ==
    << "p", "a", "g", "e", "_", "p", "a", "t", "h" >>

FilenameKwarg ==
    << "f", "i", "l", "e", "n", "a", "m", "e" >>

\* The extension of markdown sources
Md == << ".", "m", "d" >>

\* The protocol separator
Protocol == << ":", "/", "/" >>

Mailto == << "m", "a", "i", "l", "t", "o", ":" >>

\* "$jinja {{ url_for('"
JinjaUrlFor ==
    << "$", "j", "i", "n", "j", "a", " ", "{", "{", " ", "u", "r", "l",
       "_", "f", "o", "r", "(", "'" >>

\* "', "
JinjaComma == << "'", ",", " " >>

\* "='"
JinjaEquals == << "=", "'" >>

\* "', _anchor='"
JinjaAnchor ==
    << "'", ",", " ", "_", "a", "n", "c", "h", "o", "r", "=", "'" >>

\* "') }} jinja$"
JinjaClose ==
    << "'", ")", " ", "}", "}", " ", "j", "i", "n", "j", "a", "$" >>

\* The hrefs returned as they are, but for the mailto: ones
PassedThroughButMailto(href) ==
    \/ href = << >>
    \/ Contains(href, Protocol)
    \/ StartsWith(href, << "/" >>)
    \/ StartsWith(href, << "#" >>)

\* The href is not the linker's to change
PassedThrough(href) ==
    \/ href = << >>
    \/ Contains(href, Protocol)
    \/ StartsWith(href, << "/" >>)
    \/ StartsWith(href, << "#" >>)
    \/ StartsWith(href, Mailto)

\* Every path a page, whatever its last segment
ClassifyAllPages(href) ==
    IF EndsWith(href, Md)
    THEN [path |-> SubSeq(href, 1, Len(href) - 3),
          route |-> SiteName \o FromSitemap, kwarg |-> PagePathKwarg]
    ELSE [path |-> href,
          route |-> SiteName \o FromSitemap, kwarg |-> PagePathKwarg]

\* Page or static asset: the path, the route and the parameter name
Classify(href) ==
    IF EndsWith(href, Md)
    THEN [path |-> SubSeq(href, 1, Len(href) - 3),
          route |-> SiteName \o FromSitemap, kwarg |-> PagePathKwarg]
    ELSE LET segments == SplitAll(href, "/")
         IN IF "." \notin { segments[Len(segments)][i] :
                              i \in 1..Len(segments[Len(segments)]) }
            THEN [path |-> href,
                  route |-> SiteName \o FromSitemap, kwarg |-> PagePathKwarg]
            ELSE [path |-> href,
                  route |-> SiteName \o StaticRoute, kwarg |-> FilenameKwarg]

\* The page path itself as the base of a relative href
BasePathWhole(pp) == pp

\* '/'.join(page.page_path.split('/')[:-1])
BasePath(pp) ==
    LET parts == SplitAll(pp, "/")
    IN Join(SubSeq(parts, 1, Len(parts) - 1), "/")

\* '/'.join([base_path, path.rstrip('/')]).lstrip('/')
TargetPath(pp, path) ==
    LStrip(Join(<< BasePath(pp), RStrip(path, "/") >>, "/"), "/")

\* get_linker(page, site_name)(href)
Linker(pp, href) ==
    IF PassedThrough(href)
    THEN [route |-> href, kwarg |-> None, target_path |-> None,
          anchor |-> None]
    ELSE LET parts == IF Contains(href, << "#" >>)
                      THEN Split1(href, << "#" >>) ELSE << href >>
             c == Classify(parts[1])
         IN [route |-> c.route,
             kwarg |-> Some(c.kwarg),
             target_path |-> Some(TargetPath(pp, c.path)),
             anchor |-> IF Len(parts) = 2 THEN Some(parts[2]) ELSE None]

\* get_deferencer(page, site_name)(href)
LinkDereferencer(pp, href) ==
    LET l == Linker(pp, href)
    IN IF l.kwarg = None THEN l.route
       ELSE IF l.anchor # None
       THEN JinjaUrlFor \o l.route \o JinjaComma \o l.kwarg[1] \o JinjaEquals
                \o l.target_path[1] \o JinjaAnchor \o l.anchor[1] \o JinjaClose
       ELSE JinjaUrlFor \o l.route \o JinjaComma \o l.kwarg[1] \o JinjaEquals
                \o l.target_path[1] \o JinjaClose

\* The page paths of the pages rendered
PagePaths ==
    { Index, << "a" >>, << "a", "/", "b" >>, << "a", "/", "b", "/" >> \o Index,
      Baz \o << "/" >> \o Index }

\* The hrefs found in the pages: relative ones put together from a
\* directory, a name, an extension or trailing slash and a fragment, and
\* some that are not relative
Hrefs ==
    { d \o n \o e \o a :
        d \in { << >>, << "t", "o", "/" >>, << ".", ".", "/" >> },
        n \in { << >>, << "c" >>,
                << "s", "o", "m", "e", "w", "h", "e", "r", "e" >> },
        e \in { << >>, Md, << ".", "p", "n", "g" >>, << "/" >> },
        a \in { << >>, << "#", "s" >> } }
    \cup { << "h", "t", "t", "p" >> \o Protocol \o << "x" >>,
           Mailto \o << "h", "@", "x" >>,
           << "/", "a", "b", "s" >> }

(* --------------------- render: markdown and braces -------------------- *)

\* [{}%]
BraceChars == { "{", "}", "%" }

\* \s
Whitespace == { " ", "\t", "\n", "\r", "\f" }

\* "{{ '" and "' }}": the template string literal put around a run
QuoteOpen == << "{", "{", " ", "'" >>
QuoteClose == << "'", " ", "}", "}" >>

\* "$jinja" and "jinja$"
DollarJinja == << "$", "j", "i", "n", "j", "a" >>
JinjaDollar == << "j", "i", "n", "j", "a", "$" >>

\* The least number of a set of numbers that is not empty
Least(S) == CHOOSE x \in S : \A y \in S : x <= y

\* The first position from p on whose character is not in Class, or the
\* position after the last
FirstOutside(s, p, Class) ==
    LET out == { j \in p..Len(s) : s[j] \notin Class }
    IN IF out = {} THEN Len(s) + 1 ELSE Least(out)

\* The literal lit stands at position p of s
HasAt(s, p, lit) ==
    /\ p + Len(lit) - 1 <= Len(s)
    /\ SubSeq(s, p, p + Len(lit) - 1) = lit

\* The first position from p on whose character is in Class, or the
\* position after the last
FirstInside(s, p, Class) ==
    LET at == { j \in p..Len(s) : s[j] \in Class }
    IN IF at = {} THEN Len(s) + 1 ELSE Least(at)

\* re.sub(r"([{}%]+)", r"{{ '\g<1>' }}", content), from position i on:
\* what precedes the next run, the run in its literal, and the rest
RECURSIVE QuoteBraces(_, _)
QuoteBraces(s, i) ==
    LET b == FirstInside(s, i, BraceChars)
        e == FirstOutside(s, b, BraceChars)
    IN IF b > Len(s) THEN SubSeq(s, i, Len(s))
       ELSE SubSeq(s, i, b - 1) \o QuoteOpen \o SubSeq(s, b, e - 1)
                \o QuoteClose \o QuoteBraces(s, e)

\* The match of ALLOWED_JINJA at position i of s, if there is one: its
\* last position and its three groups.  Every repetition of the pattern
\* is followed by a character it cannot match, so the match is the
\* greedy one.
AllowedJinja(s, i) ==
    LET p2 == FirstOutside(s, i + 6, Whitespace)
        e1 == FirstOutside(s, p2 + 4, BraceChars)
        e2 == FirstInside(s, e1 + 4, { "{" })
        e3 == FirstOutside(s, e2 + 4, BraceChars)
        p7 == FirstOutside(s, e3 + 4, Whitespace)
    IN IF /\ HasAt(s, i, DollarJinja)
          /\ HasAt(s, p2, QuoteOpen)
          /\ e1 > p2 + 4
          /\ HasAt(s, e1, QuoteClose)
          /\ e2 > e1 + 4
          /\ HasAt(s, e2, QuoteOpen)
          /\ e3 > e2 + 4
          /\ HasAt(s, e3, QuoteClose)
          /\ HasAt(s, p7, JinjaDollar)
       THEN Some([last |-> p7 + 5,
                  g1 |-> SubSeq(s, p2 + 4, e1 - 1),
                  g2 |-> SubSeq(s, e1 + 4, e2 - 1),
                  g3 |-> SubSeq(s, e2 + 4, e3 - 1)])
       ELSE None

\* re.sub(ALLOWED_JINJA, r"\1\2\3", s), from position i on: what
\* precedes the next match, its three groups, and the rest
RECURSIVE SubAllowedJinja(_, _)
SubAllowedJinja(s, i) ==
    LET at == { j \in i..Len(s) : s[j] = "$" /\ AllowedJinja(s, j) # None }
    IN IF at = {} THEN SubSeq(s, i, Len(s))
       ELSE LET m == AllowedJinja(s, Least(at))[1]
            IN SubSeq(s, i, Least(at) - 1) \o m.g1 \o m.g2 \o m.g3
                   \o SubAllowedJinja(s, m.last + 1)

\* Content returned as it is
EscapeNothing(content) == content

\* escape_braces(content)
EscapeBraces(content) == SubAllowedJinja(QuoteBraces(content, 1), 1)

\* What the content of a page is made of
Text(body) == [kind |-> "text", body |-> body]
Anchor(href) == [kind |-> "a", body |-> href]
Image(src) == [kind |-> "img", body |-> src]

\* The texts an author writes: plain, with the braces of TeX, with a
\* percent sign, and with template expressions between $jinja and jinja$
RealJinja == << "{", "{", " ", "f", "(", ")", " ", "}", "}" >>
ModuloJinja == << "{", "{", " ", "a", " ", "%", " ", "b", " ", "}", "}" >>
Texts ==
    { << "a", "b" >>, << "{", "x", "}" >>, << "5", "%" >>,
      DollarJinja \o << " " >> \o RealJinja \o << " " >> \o JinjaDollar,
      DollarJinja \o << " " >> \o ModuloJinja \o << " " >> \o JinjaDollar }

\* The texts, links and images of a page
Pieces ==
    { Text(t) : t \in Texts }
    \cup { Anchor(h) : h \in { << "t", "o", "/", "s", "o", "m", "e", "w", "h", "e", "r", "e", ".", "m", "d" >>,
                               << "m", "a", "i", "l", "t", "o", ":", "h", "@", "x" >>,
                               << "a", "%", "b", ".", "m", "d" >> } }
    \cup { Image(<< "c", ".", "p", "n", "g" >>) }

\* The element markdown makes of a piece of content, its attribute
\* translated by the ReferenceProcessor of its tag
Element(pp, piece) ==
    CASE piece.kind = "text" -> piece.body
      [] piece.kind = "a" ->
            << "<", "a", " ", "h", "r", "e", "f", "=", "\"" >>
                \o LinkDereferencer(pp, piece.body)
                \o << "\"", ">", "x", "<", "/", "a", ">" >>
      [] piece.kind = "img" ->
            << "<", "i", "m", "g", " ", "a", "l", "t", "=", "\"", "x", "\"", " ", "s", "r", "c", "=", "\"" >>
                \o LinkDereferencer(pp, piece.body)
                \o << "\"", " ", "/", ">" >>

RECURSIVE Paragraph(_, _)
Paragraph(pp, content) ==
    IF content = << >> THEN << >>
    ELSE Element(pp, content[1]) \o Paragraph(pp, Tail(content))

\* markdown(content, extensions=extensions): one paragraph
Markdown(pp, content) ==
    << "<", "p", ">" >> \o Paragraph(pp, content) \o << "<", "/", "p", ">" >>

\* The attributes the two ReferenceProcessors have translated
Translated(pp, content) ==
    LET refs == SelectSeq(content, LAMBDA piece : piece.kind # "text")
    IN [ i \in 1..Len(refs) |->
           [href |-> refs[i].body,
            link |-> Linker(pp, refs[i].body),
            attr |-> LinkDereferencer(pp, refs[i].body)] ]

\* render(content, dereferencer)
Render(pp, content) == EscapeBraces(Markdown(pp, content))

(* ------------------------ arxiv.sitemap.build ------------------------- *)

\* get_tree as a function of the prefix and of the files walk yields
RECURSIVE GetTreeLoop(_, _, _, _)
GetTreeLoop(t, pfx, files, i) ==
    IF i > Len(files) THEN t
    ELSE GetTreeLoop(AddPage(t, pfx, Yield(pfx, files[i])), pfx, files, i + 1)

GetTree(pfx, files) == GetTreeLoop(InitialTree(pfx), pfx, files, 1)

\* get_tree raises for the site
GetTreeRaises(pfx, files) ==
    \E i \in 1..Len(files) : Raises(pfx, Yield(pfx, files[i]))

\* A page file with its stored metadata
PageFile(dir, name, resp) ==
    LET f == [dir |-> dir, fname |-> name \o J2]
    IN [dir |-> dir, fname |-> f.fname, meta |-> Metadata(PagePath(f), resp)]

\* The contents of the source directories of the repositories, in walk's
\* order
SiteContents ==
    << << >>,
       << PageFile(<< >>, Index, "none"), PageFile(<< >>, Foo, "none"),
          PageFile(<< "/" >> \o Baz, Index, "none") >>,
       << PageFile(<< >>, << "a" >>, "none"),
          PageFile(<< "/", "a" >>, Index, "none"),
          PageFile(<< "/", "a" >>, << "b" >>, "none") >>,
       << PageFile(<< >>, Foo, "status300"),
          PageFile(<< "/", "a", "/", "b" >>, Index, "none") >> >>

\* The contents of the sites a spec file may list
SitePool == { SiteContents[i] : i \in 1..Len(SiteContents) }

\* The source_dir under which the repository holds the contents c
SourceDir(c) ==
    << "d" >> \o << << "0", "1", "2", "3" >>[
                       CHOOSE i \in 1..Len(SiteContents) : SiteContents[i] = c] >>

\* The value of a site's "server"
ServerOrigin == << "h", "t", "t", "p", "s", ":", "/", "/", "x", ".", "o", "r", "g" >>

\* A site of the spec file with everything _validate_spec asks for; pages
\* is what the build finds under source_dir once the repository is cloned
Site(p, c) ==
    [name |-> << "h", "e", "l", "p" >>,
     repo |-> << "g", "i", "t", "@", "x", ":", "y", ".", "g", "i", "t" >>,
     source_dir |-> SourceDir(c),
     source_ref |-> << "m" >>,
     human_name |-> SiteHumanName,
     url_prefix |-> p,
     pages |-> c]

\* The sites a spec file may list: with and without a server, one whose
\* url_prefix has no leading slash, and one whose name is the empty string
\* (its repository path is the working directory itself, where nothing is
\* cloned and no page is found)
SiteSpecs ==
    { Site(p, c) : p \in { << "/" >>, SlashHelp }, c \in SitePool }
    \cup { [server |-> ServerOrigin] @@ Site(p, c) :
               p \in { << "/" >>, SlashHelp }, c \in SitePool }
    \cup { Site(<< "h", "e", "l", "p" >>, SiteContents[2]) }
    \cup { [Site(SlashHelp, SiteContents[1]) EXCEPT !.name = << >>] }

\* The keys _validate_spec asks for
RequiredKeys ==
    { "name", "repo", "source_dir", "source_ref", "human_name", "url_prefix" }

\* The sites a spec file may list that have a defect: a key missing, a
\* name with a hyphen, a repo without ':', without '.git' or without
\* 'git@', a server without protocol
DefectiveSpecs ==
    LET site == Site(SlashHelp, SiteContents[2])
    IN { [ key \in (DOMAIN site) \ { k } |-> site[key] ] : k \in RequiredKeys }
       \cup { [site EXCEPT !.name = << "a", "-", "b" >>] }
       \cup { [site EXCEPT !.repo = r] :
                r \in { << "g", "i", "t", "@", "x", "/", "y", ".", "g", "i", "t" >>,
                        << "g", "i", "t", "@", "x", ":", "y" >>,
                        << "x", ":", "y", ".", "g", "i", "t" >> } }
       \cup { [server |-> << "x", ".", "o", "r", "g" >>] @@ site }

\* [a-zA-Z_]
NameChars ==
    { "a", "b", "c", "d", "e", "f", "g", "h", "i", "j", "k", "l", "m", "n",
      "o", "p", "q", "r", "s", "t", "u", "v", "w", "x", "y", "z" }
    \cup { "A", "B", "C", "D", "E", "F", "G", "H", "I", "J", "K", "L", "M", "N",
           "O", "P", "Q", "R", "S", "T", "U", "V", "W", "X", "Y", "Z" }
    \cup { "_" }

\* A spec that has its name and repo, but no check on what the repo is
ValidateSpecAnyRepo(spec) ==
    IF "name" \notin DOMAIN spec THEN "missing name"
    ELSE IF \E i \in 1..Len(spec.name) : spec.name[i] \notin NameChars
    THEN "name must contain only [a-ZA-Z_]"
    ELSE IF "repo" \notin DOMAIN spec THEN "missing repo"
    ELSE IF "source_dir" \notin DOMAIN spec THEN "missing source_dir"
    ELSE IF "source_ref" \notin DOMAIN spec
    THEN "source_ref must be a tag or branch"
    ELSE IF "human_name" \notin DOMAIN spec THEN "missing human_name"
    ELSE IF "url_prefix" \notin DOMAIN spec THEN "missing url_prefix"
    ELSE IF "server" \in DOMAIN spec /\ ~Contains(spec.server, Protocol)
    THEN "server should have protocol"
    ELSE "ok"

\* _validate_spec(spec): the ValueError it raises, or "ok"
ValidateSpec(spec) ==
    IF "name" \notin DOMAIN spec THEN "missing name"
    ELSE IF \E i \in 1..Len(spec.name) : spec.name[i] \notin NameChars
    THEN "name must contain only [a-ZA-Z_]"
    ELSE IF "repo" \notin DOMAIN spec THEN "missing repo"
    ELSE IF \/ ~Contains(spec.repo, << ":" >>)
            \/ ~Contains(spec.repo, << ".", "g", "i", "t" >>)
            \/ ~Contains(spec.repo, << "g", "i", "t", "@" >>)
    THEN "that does not look like a git repo"
    ELSE IF "source_dir" \notin DOMAIN spec THEN "missing source_dir"
    ELSE IF "source_ref" \notin DOMAIN spec
    THEN "source_ref must be a tag or branch"
    ELSE IF "human_name" \notin DOMAIN spec THEN "missing human_name"
    ELSE IF "url_prefix" \notin DOMAIN spec THEN "missing url_prefix"
    ELSE IF "server" \in DOMAIN spec /\ ~Contains(spec.server, Protocol)
    THEN "server should have protocol"
    ELSE "ok"

\* The second loop starts after the first spec has passed
ValidationDoneAfterFirst(ss, k) == k >= 1

\* The first loop of do_create_site_map has been through every spec
ValidationDone(ss, k) == k = Len(ss)

\* {key(k): val(v) for k, v in items}: a dict built entry by entry
RECURSIVE DictOf(_)
DictOf(entries) ==
    IF entries = << >> THEN << >>
    ELSE DictSet(DictOf(SubSeq(entries, 1, Len(entries) - 1)),
                 entries[Len(entries)].k, entries[Len(entries)].v)

\* A rewrite of the node's own path only
PathsToUrlsShallow(server, tree_part) ==
    [tree_part EXCEPT !.path = server \o @]

\* Mutant of PathsToUrls: the keys of the children stay as they are
RECURSIVE PathsToUrlsKeysKept(_, _)
PathsToUrlsKeysKept(server, tree_part) ==
    LET part == [tree_part EXCEPT !.path = server \o @]
    IN IF "children" \in DOMAIN part
       THEN [part EXCEPT !.children =
                [ i \in 1..Len(@) |->
                    [k |-> @[i].k,
                     v |-> PathsToUrlsKeysKept(server, @[i].v)] ]]
       ELSE part

\* _paths_to_urls(server, tree_part)
RECURSIVE PathsToUrls(_, _)
PathsToUrls(server, tree_part) ==
    LET part == [tree_part EXCEPT !.path = server \o @]
    IN IF "children" \in DOMAIN part
       THEN [part EXCEPT !.children =
                DictOf([ i \in 1..Len(@) |->
                           [k |-> server \o @[i].k,
                            v |-> PathsToUrls(server, @[i].v)] ])]
       ELSE part

\* The subtree do_create_site_map merges for a site
Subtree(spec) ==
    LET subtree == GetTree(spec.url_prefix, spec.pages)
    IN IF "server" \in DOMAIN spec
       THEN DictOf([ i \in 1..Len(subtree) |->
                       [k |-> spec.server \o subtree[i].k,
                        v |-> PathsToUrls(spec.server, subtree[i].v)] ])
       ELSE subtree

\* The dict get_tree returned, as it is after the site has been merged:
\* _paths_to_urls writes into the nodes it is given
ReturnedAfter(spec) ==
    LET subtree == GetTree(spec.url_prefix, spec.pages)
    IN IF "server" \in DOMAIN spec
       THEN [ i \in 1..Len(subtree) |->
                [k |-> subtree[i].k,
                 v |-> PathsToUrls(spec.server, subtree[i].v)] ]
       ELSE subtree

\* The other mapping in place of the first
DictReplace(d, other) == other

\* The entries of the other mapping under the keys the first does not have
RECURSIVE DictUpdateKeepFirst(_, _)
DictUpdateKeepFirst(d, other) ==
    IF other = << >> THEN d
    ELSE DictUpdateKeepFirst(IF DictHas(d, other[1].k) THEN d
                             ELSE DictSet(d, other[1].k, other[1].v),
                             Tail(other))

\* tree.update(subtree)
RECURSIVE DictUpdate(_, _)
DictUpdate(d, other) ==
    IF other = << >> THEN d
    ELSE DictUpdate(DictSet(d, other[1].k, other[1].v), Tail(other))

(* ----------------- the sitemap document: json.dump -------------------- *)

ChildrenKey == << "c", "h", "i", "l", "d", "r", "e", "n" >>
TitleKey == << "t", "i", "t", "l", "e" >>
PathKey == << "p", "a", "t", "h" >>
ModifiedKey == << "m", "o", "d", "i", "f", "i", "e", "d" >>
ChangefreqKey == << "c", "h", "a", "n", "g", "e", "f", "r", "e", "q" >>
Monthly == << "m", "o", "n", "t", "h", "l", "y" >>

\* The keys a node may have, and their names in the document
NodeFields == << "children", "title", "path", "modified" >>

FieldKey(f) ==
    CASE f = "children" -> ChildrenKey
      [] f = "title" -> TitleKey
      [] f = "path" -> PathKey
      [] f = "modified" -> ModifiedKey

\* json.dump: every dict becomes an object, a sequence of members
RECURSIVE JsonOfNode(_)
JsonOfNode(node) ==
    LET fields == SelectSeq(NodeFields, LAMBDA f : f \in DOMAIN node)
    IN [ i \in 1..Len(fields) |->
           [k |-> FieldKey(fields[i]),
            v |-> IF fields[i] = "children"
                  THEN [ j \in 1..Len(node.children) |->
                           [k |-> node.children[j].k,
                            v |-> JsonOfNode(node.children[j].v)] ]
                  ELSE node[fields[i]]] ]

JsonDump(t) == [ i \in 1..Len(t) |-> [k |-> t[i].k, v |-> JsonOfNode(t[i].v)] ]

(* ------------------------- arxiv.sitemap.load ------------------------- *)

\* The url_root as it was given
UrlRootAsGiven(root) == root

\* self._url_root
UrlRoot(root) == RStrip(root, "/")

\* The url_root values load_urlset is given
UrlRoots ==
    { << "h", "t", "t", "p", ":", "/", "/", "f", ".", "c", "o", "m" >>,
      << "h", "t", "t", "p", ":", "/", "/", "f", ".", "c", "o", "m", "/" >>,
      << >> }

\* ISO8601JSONDecoder: a string in ISO-8601 format becomes a datetime
IsoParse(value) ==
    IF StartsWith(value, IsoStamp) THEN [iso |-> value] ELSE value

\* datetime.isoformat()
IsoFormat(dt) == dt.iso

\* The url_root put in front of every path, whatever the path holds
NodeHookEveryPath(root, data) ==
    [ i \in 1..Len(data) |->
        IF data[i].k = ChildrenKey THEN data[i]
        ELSE IF data[i].k = PathKey
        THEN [k |-> data[i].k, v |-> IsoParse(UrlRoot(root) \o data[i].v)]
        ELSE [k |-> data[i].k, v |-> IsoParse(data[i].v)] ]

\* URLDecoder.object_hook on the object of a node: its members are strings,
\* but for the children
NodeHook(root, data) ==
    [ i \in 1..Len(data) |->
        IF data[i].k = ChildrenKey THEN data[i]
        ELSE IF data[i].k = PathKey /\ ~Contains(data[i].v, Protocol)
        THEN [k |-> data[i].k, v |-> IsoParse(UrlRoot(root) \o data[i].v)]
        ELSE [k |-> data[i].k, v |-> IsoParse(data[i].v)] ]

\* URLDecoder.object_hook on a mapping from paths to nodes: no key of it
\* is "path", and its values are objects
MappingHook(root, data) ==
    [ i \in 1..Len(data) |-> IF data[i].k = PathKey THEN data[i] ELSE data[i] ]

\* json.load(f, cls=URLDecoder, url_root=url_root): the hook is applied to
\* every object, the innermost first
RECURSIVE Decode(_, _)
Decode(root, doc) ==
    MappingHook(root,
        [ i \in 1..Len(doc) |->
            [k |-> doc[i].k,
             v |-> NodeHook(root,
                     [ j \in 1..Len(doc[i].v) |->
                         IF doc[i].v[j].k = ChildrenKey
                         THEN [k |-> ChildrenKey,
                               v |-> Decode(root, doc[i].v[j].v)]
                         ELSE doc[i].v[j] ])] ])

\* load_urlset(url_root, urlset_path)
LoadUrlset(root, doc) == Decode(root, doc)

(* ----------------------- arxiv.sitemap.serialize ---------------------- *)

\* The top-level urls only
IterUrlsTopLevel(us) == [ i \in 1..Len(us) |-> us[i].v ]

\* iter_urls(urlset)
RECURSIVE IterUrls(_)
IterUrls(us) ==
    IF us = << >> THEN << >>
    ELSE << us[1].v >> \o IterUrls(DictGet(us[1].v, ChildrenKey))
             \o IterUrls(Tail(us))

\* loc(url)
Loc(url) == [tag |-> "loc", text |-> DictGet(url, PathKey)]

\* lastmod(url), for a url with a modified value
Lastmod(url) == [tag |-> "lastmod", text |-> IsoFormat(DictGet(url, ModifiedKey))]

\* changefreq(url)
Changefreq(url) ==
    [tag |-> "changefreq",
     text |-> IF DictHas(url, ChangefreqKey) THEN DictGet(url, ChangefreqKey)
              ELSE Monthly]

\* url_xml(url): the children of the url element
UrlXml(url) ==
    << Loc(url) >>
        \o (IF DictHas(url, ModifiedKey) THEN << Lastmod(url) >> ELSE << >>)
        \o << Changefreq(url) >>

\* sitemap_xml(urlset): the url elements of the urlset element
SitemapXml(us) ==
    LET urls == IterUrls(us)
    IN [ i \in 1..Len(urls) |-> UrlXml(urls[i]) ]

(* ----------------------- arxiv.marxdown.routes ------------------------ *)

\* os.path.join(a, b), b a relative path
OsPathJoin(a, b) ==
    IF a = << >> THEN b
    ELSE IF EndsWith(a, << "/" >>) THEN a \o b
    ELSE a \o << "/" >> \o b

\* The response blocks of the pages served: those of Metadata, a page
\* that has moved, and a deleted page that declares a status as well
ServedResponses ==
    { "none", "deleted", "status299", "status300", "moved", "deletedmoved" }

\* The metadata load_metadata reads for the page at path
ServedMetadata(path, resp) ==
    CASE resp = "moved" ->
           Metadata(path, "none")
             @@ [response |-> [status |-> 301, location |-> Foo]]
      [] resp = "deletedmoved" ->
           Metadata(path, "none")
             @@ [response |-> [deleted |-> TRUE, status |-> 301,
                               location |-> Foo]]
      [] OTHER -> Metadata(path, resp)

\* The page _build_site stores at path: store_page_content, store_metadata
StoredPage(path, resp) ==
    [page_path |-> path,
     content |-> << "<", "p", ">" >> \o path \o << "<", "/", "p", ">" >>,
     metadata |-> ServedMetadata(path, resp)]

\* os.path.exists(get_path_for_page(page_path))
PageExists(pgs, p) == \E pg \in pgs : pg.page_path = p

\* Page(page_path, load_page_content(page_path), load_metadata(page_path))
PageOf(pgs, p) == CHOOSE pg \in pgs : pg.page_path = p

\* Mutant of LoadPage: the index of the path is looked for first
LoadPageIndexFirst(pgs, p) ==
    LET index_path == OsPathJoin(p, Index)
    IN IF PageExists(pgs, index_path) THEN Some(PageOf(pgs, index_path))
       ELSE IF PageExists(pgs, p) THEN Some(PageOf(pgs, p))
       ELSE None

\* load_page(page_path): the page, or None for PageNotFound
LoadPage(pgs, p) ==
    IF PageExists(pgs, p) THEN Some(PageOf(pgs, p))
    ELSE LET index_path == OsPathJoin(p, Index)
         IN IF PageExists(pgs, index_path) THEN Some(PageOf(pgs, index_path))
            ELSE None

\* index.static_exists(page_path)
StaticExists(idx, p) == p \in idx

\* "_static/"
UnderStatic == << "_", "s", "t", "a", "t", "i", "c", "/" >>

\* url_for(route, **{kwarg: name}, _anchor=anchor) for the routes of the
\* site's blueprint, the site at the root
UrlFor(route, name, anchor) ==
    (IF route = SiteName \o FromSitemap
     THEN << "/" >> \o name
     ELSE << "/" >> \o SiteName \o UnderStatic \o name)
    \o (IF anchor = None THEN << >> ELSE << "#" >> \o anchor[1])

\* Mutant of ResponseCode: the status the page declares comes first
ResponseCodeStatusFirst(metadata) ==
    IF "response" \in DOMAIN metadata
    THEN IF "status" \in DOMAIN metadata.response
         THEN metadata.response.status
         ELSE IF /\ "deleted" \in DOMAIN metadata.response
                 /\ metadata.response.deleted
         THEN 404
         ELSE 200
    ELSE 200

\* from_sitemap: the status code of the response for a page
ResponseCode(metadata) ==
    IF "response" \in DOMAIN metadata
    THEN IF /\ "deleted" \in DOMAIN metadata.response
            /\ metadata.response.deleted
         THEN 404
         ELSE IF "status" \in DOMAIN metadata.response
         THEN metadata.response.status
         ELSE 200
    ELSE 200

\* from_sitemap: headers['Location'] of the response for a page, if any
ResponseLocation(page) ==
    IF /\ "response" \in DOMAIN page.metadata
       /\ "location" \in DOMAIN page.metadata.response
    THEN LET l == Linker(page.page_path, page.metadata.response.location)
         IN IF l.kwarg = None THEN Some(l.route)
            ELSE Some(UrlFor(l.route, l.target_path[1], l.anchor))
    ELSE None

\* raise NotFound('No such page')
NotFound ==
    [code |-> 404, location |-> None, body |-> None, page |-> None,
     raised |-> TRUE]

\* from_sitemap(page_path): the status code, the Location header, the
\* body, and the page_path of the page loaded
ServeFromSitemap(pgs, idx, p) ==
    LET page == LoadPage(pgs, p)
    IN IF page = None
       THEN IF StaticExists(idx, p)
            THEN [code |-> 302,
                  location |-> Some(UrlFor(SiteName \o StaticRoute, p, None)),
                  body |-> None, page |-> None, raised |-> FALSE]
            ELSE NotFound
       ELSE [code |-> ResponseCode(page[1].metadata),
             location |-> ResponseLocation(page[1]),
             body |-> Some(page[1].content),
             page |-> Some(page[1].page_path),
             raised |-> FALSE]

\* Mutant of RedirectHtml: the redirect goes to the page that was loaded
RedirectHtmlToLoaded(pgs, p) ==
    LET page == LoadPage(pgs, p)
    IN IF page = None THEN NotFound
       ELSE [code |-> 302,
             location |-> Some(UrlFor(SiteName \o FromSitemap,
                                      page[1].page_path, None)),
             body |-> None, page |-> None, raised |-> FALSE]

\* redirect_html(page_path)
RedirectHtml(pgs, p) ==
    LET page == LoadPage(pgs, p)
    IN IF page = None THEN NotFound
       ELSE [code |-> 302,
             location |-> Some(UrlFor(SiteName \o FromSitemap, p, None)),
             body |-> None, page |-> None, raised |-> FALSE]

\* The page paths of the pages a site may hold
ServedPaths ==
    { Index, << "a" >>, << "a", "/" >> \o Index, Foo,
      Baz \o << "/" >> \o Index }

\* The sites served: any of the pages, at most one of them with a response
\* block
ServedSites ==
    { { StoredPage(p, IF p = m THEN r ELSE "none") : p \in S } :
        S \in SUBSET ServedPaths,
        m \in ServedPaths,
        r \in ServedResponses }

\* The static files the index may know
StaticFiles == { << "c", ".", "p", "n", "g" >>, Foo }

\* The page_path values of the requests
RequestPaths ==
    { << >>, Index, << "a" >>, << "a", "/" >> \o Index, Foo, Baz,
      << "n", "o", "p", "e" >>, << "c", ".", "p", "n", "g" >> }

(* ------------------------------ actions ------------------------------- *)

\* os.walk visits the directories top down and each directory once
WalkOrder(ys) ==
    \E o \in DirOrders :
        \A i, j \in 1..Len(ys) :
            i < j =>
                \E a, b \in 1..Len(o) : /\ o[a] = ys[i].dir
                                        /\ o[b] = ys[j].dir
                                        /\ a <= b

\* No page is being rendered
LinkIdle ==
    /\ page_path = << >>
    /\ links = << >>
    /\ source = << >>
    /\ html = << >>
    /\ output = << >>

\* No sitemap is being built
MapIdle ==
    /\ specs = << >>
    /\ verdicts = << >>
    /\ built = << >>
    /\ sitemap = << >>
    /\ out_file = << >>
    /\ url_root = << >>
    /\ urlset = << >>
    /\ xml = << >>
    /\ mpc = "idle"

\* No request is being served
ServeIdle ==
    /\ site_pages = { }
    /\ static_index = { }
    /\ requests = << >>
    /\ responses = << >>

\* No tree is being built
TreeIdle ==
    /\ prefix = << >>
    /\ yielded = << >>
    /\ tree = << >>
    /\ pc = "idle"

Init ==
    /\ prefix \in Prefixes
    /\ yielded = << >>
    /\ tree = InitialTree(prefix)
    /\ pc = "walking"
    /\ LinkIdle
    /\ MapIdle
    /\ ServeIdle

\* walk yields the next page file and get_tree's loop body handles it
NextPage ==
    /\ pc = "walking"
    /\ Len(yielded) < MaxPages
    /\ \E f \in Files :
       \E r \in Responses(f) :
          LET g == [dir |-> f.dir, fname |-> f.fname,
                    meta |-> Metadata(PagePath(f), r)]
              y == Yield(prefix, g)
          IN /\ \A i \in 1..Len(yielded) :
                    ~(yielded[i].dir = f.dir /\ yielded[i].fname = f.fname)
             /\ WalkOrder(Append(yielded, g))
             /\ yielded' = Append(yielded, y @@ g)
             /\ IF Raises(prefix, y)
                THEN /\ pc' = "raised"
                     /\ tree' = tree
                ELSE /\ pc' = "walking"
                     /\ tree' = AddPage(tree, prefix, y)
    /\ UNCHANGED << prefix, linkVars, mapVars, serveVars >>

\* walk is exhausted and get_tree returns the tree
ReturnTree ==
    /\ pc = "walking"
    /\ pc' = "returned"
    /\ UNCHANGED << prefix, yielded, tree, linkVars, mapVars, serveVars >>

Next ==
    \/ NextPage
    \/ ReturnTree

Spec == Init /\ [][Next]_vars

\* A page is about to be rendered
InitLink ==
    /\ page_path \in PagePaths
    /\ links = << >>
    /\ source = << >>
    /\ html = None
    /\ output = None
    /\ TreeIdle
    /\ MapIdle
    /\ ServeIdle

\* ReferenceProcessor.translate_anchors: the attribute of one more element
\* is replaced by what the dereferencer makes of it
TranslateAnchor ==
    /\ Len(links) < MaxLinks
    /\ \E href \in Hrefs :
          links' = Append(links, [href |-> href,
                                  link |-> Linker(page_path, href),
                                  attr |-> LinkDereferencer(page_path, href)])
    /\ UNCHANGED << page_path, source, html, output, treeVars, mapVars, serveVars >>

NextLink == TranslateAnchor

SpecLink == InitLink /\ [][NextLink]_vars

\* The sequences of at most n members of S
SeqsUpTo(S, n) == UNION { [1..m -> S] : m \in 1..n }

\* do_create_site_map has read the spec file
InitMap ==
    /\ specs \in SeqsUpTo(SiteSpecs \cup DefectiveSpecs, MaxSites)
    /\ verdicts = << >>
    /\ built = << >>
    /\ sitemap = << >>
    /\ out_file = None
    /\ url_root = << >>
    /\ urlset = << >>
    /\ xml = << >>
    /\ mpc = "validating"
    /\ TreeIdle
    /\ LinkIdle
    /\ ServeIdle

\* One iteration of do_create_site_map's first loop: the next spec is
\* validated; an error ends the run, and the second loop starts once every
\* spec has passed
ValidateNext ==
    /\ mpc = "validating"
    /\ Len(verdicts) < Len(specs)
    /\ LET v == ValidateSpec(specs[Len(verdicts) + 1])
       IN /\ verdicts' = Append(verdicts, v)
          /\ mpc' = IF v # "ok" THEN "invalid"
                    ELSE IF ValidationDone(specs, Len(verdicts) + 1)
                    THEN "building"
                    ELSE "validating"
    /\ UNCHANGED << specs, built, sitemap, out_file, url_root, urlset, xml,
                    treeVars, linkVars, serveVars >>

\* One iteration of do_create_site_map's second loop: the site is built,
\* its tree rewritten if the site has a server, and merged
BuildSite ==
    /\ mpc = "building"
    /\ Len(built) < Len(specs)
    /\ LET spec == specs[Len(built) + 1]
       IN IF GetTreeRaises(spec.url_prefix, spec.pages)
          THEN /\ mpc' = "failed"
               /\ UNCHANGED << built, sitemap >>
          ELSE /\ built' = Append(built,
                       [returned |-> GetTree(spec.url_prefix, spec.pages),
                        after |-> ReturnedAfter(spec),
                        merged |-> Subtree(spec)])
               /\ sitemap' = DictUpdate(sitemap, Subtree(spec))
               /\ mpc' = "building"
    /\ UNCHANGED << specs, verdicts, out_file, url_root, urlset, xml,
                    treeVars, linkVars, serveVars >>

\* The tree is written to the sitemap document
WriteSitemap ==
    /\ mpc = "building"
    /\ Len(built) = Len(specs)
    /\ out_file' = Some(JsonDump(sitemap))
    /\ mpc' = "written"
    /\ UNCHANGED << specs, verdicts, built, sitemap, url_root, urlset, xml,
                    treeVars, linkVars, serveVars >>

\* The sitemap application loads the document for a request
LoadSitemap ==
    /\ mpc = "written"
    /\ \E root \in UrlRoots :
          /\ url_root' = root
          /\ urlset' = LoadUrlset(root, out_file[1])
    /\ mpc' = "loaded"
    /\ UNCHANGED << specs, verdicts, built, sitemap, out_file, xml,
                    treeVars, linkVars, serveVars >>

\* get_xml_sitemap serializes the URLSet loaded
ServeXml ==
    /\ mpc = "loaded"
    /\ xml' = SitemapXml(urlset)
    /\ mpc' = "served"
    /\ UNCHANGED << specs, verdicts, built, sitemap, out_file, url_root, urlset,
                    treeVars, linkVars, serveVars >>

NextMap ==
    \/ ValidateNext
    \/ BuildSite
    \/ WriteSitemap
    \/ LoadSitemap
    \/ ServeXml

SpecMap == InitMap /\ [][NextMap]_vars

\* build_site has loaded a source page and is about to render it
InitRender ==
    /\ page_path \in { << "a", "/", "b" >>, Index }
    /\ source \in { << >> } \cup SeqsUpTo(Pieces, MaxPieces)
    /\ links = << >>
    /\ html = None
    /\ output = None
    /\ TreeIdle
    /\ MapIdle
    /\ ServeIdle

\* render: markdown turns the content into HTML, the ReferenceProcessors
\* translating the attributes of its links and images
MarkdownToHtml ==
    /\ html = None
    /\ html' = Some(Markdown(page_path, source))
    /\ links' = Translated(page_path, source)
    /\ UNCHANGED << page_path, source, output, treeVars, mapVars, serveVars >>

\* render: the braces of the HTML are escaped and render returns
ReturnEscaped ==
    /\ html # None
    /\ output = None
    /\ output' = Some(EscapeBraces(html[1]))
    /\ UNCHANGED << page_path, source, links, html, treeVars, mapVars, serveVars >>

NextRender ==
    \/ MarkdownToHtml
    \/ ReturnEscaped

SpecRender == InitRender /\ [][NextRender]_vars

\* A site has been built and is served
InitServe ==
    /\ site_pages \in ServedSites
    /\ static_index \in SUBSET StaticFiles
    /\ requests = << >>
    /\ responses = << >>
    /\ TreeIdle
    /\ LinkIdle
    /\ MapIdle

\* A request for / or /<path:page_path> is handled by from_sitemap
HandleFromSitemap ==
    /\ requests = << >>
    /\ \E p \in RequestPaths :
          /\ requests' = << [endpoint |-> "from_sitemap", page_path |-> p] >>
          /\ responses' = << ServeFromSitemap(site_pages, static_index, p) >>
    /\ UNCHANGED << site_pages, static_index, treeVars, linkVars, mapVars >>

\* A request for /<path:page_path>.html or /<path:page_path>.htm is
\* handled by redirect_html
HandleRedirectHtml ==
    /\ requests = << >>
    /\ \E p \in RequestPaths \ { << >> } : \E ext \in { "html", "htm" } :
          /\ requests' = << [endpoint |-> ext, page_path |-> p] >>
          /\ responses' = << RedirectHtml(site_pages, p) >>
    /\ UNCHANGED << site_pages, static_index, treeVars, linkVars, mapVars >>

\* The client follows the redirect of redirect_html: the Location is a
\* URL of from_sitemap, which handles the request for it
FollowRedirect ==
    /\ Len(requests) = 1
    /\ requests[1].endpoint \in { "html", "htm" }
    /\ responses[1].code = 302
    /\ LET p == Tail(responses[1].location[1])
       IN /\ requests' = Append(requests,
                                [endpoint |-> "from_sitemap", page_path |-> p])
          /\ responses' = Append(responses,
                                 ServeFromSitemap(site_pages, static_index, p))
    /\ UNCHANGED << site_pages, static_index, treeVars, linkVars, mapVars >>

NextServe ==
    \/ HandleFromSitemap
    \/ HandleRedirectHtml
    \/ FollowRedirect

SpecServe == InitServe /\ [][NextServe]_vars

(* ---------------------- reading trees and pages ----------------------- *)

\* Every node of the mapping d at every depth, with the key it is stored
\* under and its parent node (<< >> for a top-level node)
RECURSIVE NodesOf(_, _)
NodesOf(d, par) ==
    UNION { { [key |-> d[i].k, node |-> d[i].v, parent |-> par] }
            \cup NodesOf(d[i].v.children, << d[i].v >>) : i \in 1..Len(d) }

\* The triples walk has yielded so far
Pages == yielded

\* The page is deleted or has a status of 300 or more
Excluded(metadata) ==
    /\ "response" \in DOMAIN metadata
    /\ \/ /\ "deleted" \in DOMAIN metadata.response
          /\ metadata.response.deleted = TRUE
       \/ /\ "status" \in DOMAIN metadata.response
          /\ metadata.response.status >= 300

\* The characters of a string
Chars(s) == { s[i] : i \in 1..Len(s) }

\* p with its last segment removed
DirName(p) ==
    LET parts == SplitAll(p, "/")
    IN Join(SubSeq(parts, 1, Len(parts) - 1), "/")

\* child is par followed by exactly one more path segment
ExtendsByOne(par, child) ==
    LET base == RStrip(par, "/") \o << "/" >>
    IN /\ StartsWith(child, base)
       /\ Len(child) > Len(base)
       /\ "/" \notin Chars(SubSeq(child, Len(base) + 1, Len(child)))

(* ------------------------------- claims ------------------------------- *)

EndsInIndex(path) == EndsWith(path, << "/" >> \o Index)

\* path with its trailing /index removed
WithoutIndex(path) == SubSeq(path, 1, Len(path) - Len(Index) - 1)

\* The URL prefix joined with a relative path
JoinUrl(pfx, p) == RStrip(pfx, "/") \o << "/" >> \o p

\* C2 (as stated): for every page whose path ends in /index, the parent URL
\* walk yields is the prefix joined with the path without its trailing
\* /index, and the page adds no segment of its own to that parent.
C2_ParentIsPathWithoutIndex ==
    \A i \in 1..Len(yielded) :
        EndsInIndex(Pages[i].path) =>
            /\ Pages[i].parent = JoinUrl(prefix, WithoutIndex(Pages[i].path))
            /\ Pages[i].pattern = Pages[i].parent

\* C2 (amended): for every page whose path ends in /index, the URL pattern
\* walk yields is the prefix (trailing slashes stripped) joined with the
\* path without its trailing /index, and the parent URL it yields is the
\* prefix followed by "/" and that path without its last segment: the page
\* stands for its directory and adds no "index" segment.
C2_PatternIsPathWithoutIndex ==
    \A i \in 1..Len(yielded) :
        EndsInIndex(Pages[i].path) =>
            /\ Pages[i].pattern = JoinUrl(prefix, WithoutIndex(Pages[i].path))
            /\ Pages[i].parent =
                   prefix \o << "/" >> \o DirName(WithoutIndex(Pages[i].path))

\* C2 witness: walk has yielded the page a/b/index.
C2_Witness ==
    \E i \in 1..Len(yielded) :
        Pages[i].path = << "a", "/", "b", "/" >> \o Index

\* The site is exactly the pages index, foo and baz/index, none of them
\* with a response block, under the prefix /
C3_Scenario ==
    /\ prefix = << "/" >>
    /\ { Pages[i].path : i \in 1..Len(yielded) }
           = { Index, Foo, Baz \o << "/" >> \o Index }
    /\ \A i \in 1..Len(yielded) : "response" \notin DOMAIN Pages[i].metadata

\* The title and modified value of the page stored at path
TitleOf(path) ==
    LET i == CHOOSE j \in 1..Len(yielded) : Pages[j].path = path
    IN [title |-> Pages[i].metadata.title,
        modified |-> Pages[i].metadata.modified]

\* C3: under the prefix /, the pages index, foo and baz/index give a tree
\* with the single top-level entry "/", titled with the site's human name
\* and with path "/", whose children are exactly the entries keyed "",
\* "/foo" and "/baz", each with its key as path, the title and modified
\* value of its page, and no children.
C3_TestSiteTree ==
    (pc = "returned" /\ C3_Scenario) =>
        /\ Len(tree) = 1
        /\ tree[1].k = << "/" >>
        /\ tree[1].v.title = SiteHumanName
        /\ tree[1].v.path = << "/" >>
        /\ LET ch == tree[1].v.children
               Entry(p, path) ==
                   [children |-> << >>, path |-> p] @@ TitleOf(path)
           IN /\ Len(ch) = 3
              /\ DictKeys(ch) = { << >>, << "/" >> \o Foo, << "/" >> \o Baz }
              /\ DictGet(ch, << >>) = Entry(<< >>, Index)
              /\ DictGet(ch, << "/" >> \o Foo) = Entry(<< "/" >> \o Foo, Foo)
              /\ DictGet(ch, << "/" >> \o Baz)
                     = Entry(<< "/" >> \o Baz, Baz \o << "/" >> \o Index)

\* C3 witness: the tree of that site has been returned.
C3_Witness == pc = "returned" /\ C3_Scenario

\* A node without a title: an ancestor created for a page below it
Placeholder(node) == "title" \notin DOMAIN node

\* C8 (as stated): in a returned tree every node other than the root
\* extends its parent's path by exactly one segment, or is a placeholder.
C8_OneMoreSegmentOrPlaceholder ==
    pc = "returned" =>
        \A n \in NodesOf(tree, << >>) :
            n.parent # << >> =>
                \/ ExtendsByOne(n.parent[1].path, n.node.path)
                \/ Placeholder(n.node)

\* C8 (amended): in a returned tree every node other than the root extends
\* its parent's path by exactly one segment, or is a placeholder, or is the
\* node of the site's root index page, whose path is the prefix with its
\* trailing slashes stripped (the empty string under the prefix "/").
C8_OneMoreSegmentOrRootIndex ==
    pc = "returned" =>
        \A n \in NodesOf(tree, << >>) :
            n.parent # << >> =>
                \/ ExtendsByOne(n.parent[1].path, n.node.path)
                \/ Placeholder(n.node)
                \/ /\ n.node.path = RStrip(prefix, "/")
                   /\ n.node.title = << "T" >> \o Index

\* C8 witness: a returned tree holds a node two levels below the root and,
\* as a child of the root, the node of the root index page.
C8_Witness ==
    /\ pc = "returned"
    /\ \E n, m \in NodesOf(tree, << >>) :
          /\ n.parent # << >> /\ n.parent[1] \notin { tree[i].v : i \in 1..Len(tree) }
          /\ ~Placeholder(n.node)
          /\ m.parent # << >> /\ m.node.path = RStrip(prefix, "/")
          /\ ~Placeholder(m.node)

\* The included pages, by position in walk's order, whose pattern is p
IncludedAt(p) ==
    { i \in 1..Len(yielded) :
          ~Excluded(Pages[i].metadata) /\ Pages[i].pattern = p }

\* The largest member of a non-empty set of numbers
Max(S) == CHOOSE x \in S : \A y \in S : y <= x

\* C10: in a returned tree every node other than the root carries the title
\* and the modified value of the last page, in walk's order, among the
\* included pages whose pattern is the node's path, and carries neither a
\* title nor a modified value exactly when there is no such page.
C10_LastPageWins ==
    pc = "returned" =>
        \A n \in NodesOf(tree, << >>) :
            n.parent # << >> =>
                LET at == IncludedAt(n.node.path)
                IN IF at = {}
                   THEN /\ "title" \notin DOMAIN n.node
                        /\ "modified" \notin DOMAIN n.node
                   ELSE /\ "title" \in DOMAIN n.node
                        /\ "modified" \in DOMAIN n.node
                        /\ n.node.title = Pages[Max(at)].metadata.title
                        /\ n.node.modified = Pages[Max(at)].metadata.modified

\* C10 witness: a returned tree holds a node whose path is the pattern of
\* two included pages, and a placeholder.
C10_Witness ==
    /\ pc = "returned"
    /\ \E n, m \in NodesOf(tree, << >>) :
          /\ n.parent # << >>
          /\ Cardinality(IncludedAt(n.node.path)) = 2
          /\ m.parent # << >>
          /\ IncludedAt(m.node.path) = {}

\* The step taken is get_tree's loop body for a page that is not skipped
PageAdded ==
    /\ pc = "walking"
    /\ pc' = "walking"
    /\ Len(yielded') = Len(yielded) + 1
    /\ ~Skipped(yielded'[Len(yielded')].metadata)

\* The tree and the chain of keys after the descent for the page of the
\* step taken
Reached ==
    Descend(tree, << TreePrefix(prefix) >>,
            GetSubpaths(TreePrefix(prefix), yielded'[Len(yielded')].parent), 1)

\* The step taken has written the page into the node reached, in place:
\* the node has the page's title and modified value, its path and children
\* are those it had, and nothing else in the tree has changed.
WrittenInPlace ==
    LET y == yielded'[Len(yielded')]
        before == GetAt(Reached.tree, Reached.cursor)
        after == GetAt(tree', Reached.cursor)
    IN /\ after.title = y.metadata.title
       /\ after.modified = y.metadata.modified
       /\ after.path = before.path
       /\ after.children = before.children
       /\ ~DictHas(after.children, y.pattern)
       /\ SetAt(tree', Reached.cursor, before) = Reached.tree

HrefPath(href) ==
    LET p == Split1(href, << "#" >>)[1]
    IN IF EndsWith(p, Md) THEN SubSeq(p, 1, Len(p) - 3) ELSE p

\* The path rel resolved against the path base
ResolvedAgainst(base, rel) ==
    LStrip(base \o << "/" >> \o RStrip(rel, "/"), "/")

AToSomewhere == << "a", "/", "t", "o", "/", "s", "o", "m", "e", "w", "h", "e", "r", "e" >>
ToSomewhereMd == << "t", "o", "/", "s", "o", "m", "e", "w", "h", "e", "r", "e", ".", "m", "d" >>

\* C4: every relative href that is not passed through is resolved against
\* the directory of the referencing page (its page path without the last
\* segment) and not against the page path itself; the href to/somewhere.md
\* on the page a/b is a page reference with page_path a/to/somewhere.
C4_ResolvedAgainstPageDirectory ==
    \A i \in 1..Len(links) :
        LET l == links[i]
        IN /\ l.link.kwarg = None <=> PassedThrough(l.href)
           /\ l.link.kwarg # None =>
                /\ l.link.target_path =
                       Some(ResolvedAgainst(DirName(page_path), HrefPath(l.href)))
                /\ l.link.target_path #
                       Some(ResolvedAgainst(page_path, HrefPath(l.href)))
           /\ (page_path = << "a", "/", "b" >> /\ l.href = ToSomewhereMd) =>
                /\ l.link.route = SiteName \o FromSitemap
                /\ l.link.kwarg = Some(PagePathKwarg)
                /\ l.link.target_path = Some(AToSomewhere)
                /\ l.link.anchor = None

\* C4 witness: the link to/somewhere.md of the page a/b has been translated.
C4_Witness ==
    /\ page_path = << "a", "/", "b" >>
    /\ \E i \in 1..Len(links) :
          /\ links[i].href = ToSomewhereMd
          /\ links[i].link.target_path = Some(AToSomewhere)

(* ------------------------ claims: the sitemap ------------------------- *)

\* Every node of the tree d at every depth, with the chain of keys that
\* leads to it
RECURSIVE TreeNodes(_, _)
TreeNodes(d, chain) ==
    UNION { { [at |-> Append(chain, d[i].k), node |-> d[i].v] }
            \cup TreeNodes(d[i].v.children, Append(chain, d[i].k))
            : i \in 1..Len(d) }

\* Every node of the document or URLSet d at every depth, with the chain
\* of keys that leads to it and the chain of its positions among siblings
RECURSIVE DocNodes(_, _, _)
DocNodes(d, chain, pos) ==
    UNION { { [at |-> Append(chain, d[i].k), pos |-> Append(pos, i),
               node |-> d[i].v] }
            \cup DocNodes(DictGet(d[i].v, ChildrenKey),
                          Append(chain, d[i].k), Append(pos, i))
            : i \in 1..Len(d) }

\* Every key of the chain with s put in front of it
PrefixedChain(s, chain) == [ i \in 1..Len(chain) |-> s \o chain[i] ]

\* The keys of the mapping d in their order
KeySeq(d) == [ i \in 1..Len(d) |-> d[i].k ]

\* C5: for a site with a server S, every node of the merged tree, at every
\* depth, has the path S followed by the path get_tree gave it, under the
\* key S followed by its key, S being put in front once; titles, modified
\* values and the nesting of the nodes are those get_tree returned.
C5_ServerPrependedOnce ==
    \A i \in 1..Len(built) :
        "server" \in DOMAIN specs[i] =>
            LET S == specs[i].server
                before == TreeNodes(built[i].returned, << >>)
                after == TreeNodes(built[i].merged, << >>)
            IN /\ { n.at : n \in after } = { PrefixedChain(S, n.at) : n \in before }
               /\ Cardinality(after) = Cardinality(before)
               /\ \A b \in before : \A a \in after :
                     a.at = PrefixedChain(S, b.at) =>
                        /\ a.node.path = S \o b.node.path
                        /\ ~StartsWith(a.node.path, S \o S)
                        /\ DOMAIN a.node = DOMAIN b.node
                        /\ "title" \in DOMAIN b.node =>
                               a.node.title = b.node.title
                        /\ "modified" \in DOMAIN b.node =>
                               a.node.modified = b.node.modified
                        /\ KeySeq(a.node.children) =
                               PrefixedChain(S, KeySeq(b.node.children))
               /\ i = Len(built) =>
                     \A j \in 1..Len(built[i].merged) :
                         /\ DictHas(sitemap, built[i].merged[j].k)
                         /\ DictGet(sitemap, built[i].merged[j].k) =
                                built[i].merged[j].v

\* C5 witness: a site with a server has been merged whose tree has a page
\* with a modified value two levels below the top.
C5_Witness ==
    \E i \in 1..Len(built) :
        /\ "server" \in DOMAIN specs[i]
        /\ \E n \in TreeNodes(built[i].merged, << >>) :
              /\ Len(n.at) = 3
              /\ "modified" \in DOMAIN n.node
              /\ StartsWith(n.node.path, ServerOrigin)

\* The URLSet has been loaded from the document
Loaded == mpc \in { "loaded", "served" }

\* The fields of the loaded node other than its path and children are
\* those of the stored one, a modified value being the datetime the stored
\* string denotes
SameOtherFields(stored, loaded) ==
    /\ DictKeys(loaded) = DictKeys(stored)
    /\ DictHas(stored, TitleKey) =>
           DictGet(loaded, TitleKey) = DictGet(stored, TitleKey)
    /\ DictHas(stored, ModifiedKey) =>
           IsoFormat(DictGet(loaded, ModifiedKey)) = DictGet(stored, ModifiedKey)
    /\ KeySeq(DictGet(loaded, ChildrenKey)) = KeySeq(DictGet(stored, ChildrenKey))

\* C6 (as stated): every node of the loaded URLSet, at every depth, has the
\* path url_root followed by the stored path, and every other field as it
\* is stored.
C6_PathIsRootThenStored ==
    Loaded =>
        LET stored == DocNodes(out_file[1], << >>, << >>)
            loaded == DocNodes(urlset, << >>, << >>)
        IN /\ { n.at : n \in loaded } = { n.at : n \in stored }
           /\ \A s \in stored : \A l \in loaded :
                 s.at = l.at =>
                    /\ DictGet(l.node, PathKey) =
                           url_root \o DictGet(s.node, PathKey)
                    /\ SameOtherFields(s.node, l.node)

\* C6 (amended): every node of the loaded URLSet, at every depth, has the
\* path url_root without its trailing slashes followed by the stored path,
\* put in front once, unless the stored path contains "://", and then it
\* has the stored path; every other field is as it is stored, a modified
\* value being the datetime of the stored string.
C6_PathIsStrippedRootThenStored ==
    Loaded =>
        LET stored == DocNodes(out_file[1], << >>, << >>)
            loaded == DocNodes(urlset, << >>, << >>)
        IN /\ { n.at : n \in loaded } = { n.at : n \in stored }
           /\ \A s \in stored : \A l \in loaded :
                 s.at = l.at =>
                    /\ DictGet(l.node, PathKey) =
                           IF Contains(DictGet(s.node, PathKey), Protocol)
                           THEN DictGet(s.node, PathKey)
                           ELSE RStrip(url_root, "/") \o DictGet(s.node, PathKey)
                    /\ SameOtherFields(s.node, l.node)

\* C6 witness: a document holding a path with "://" and, two levels down,
\* one without has been loaded with a url_root that ends in a slash.
C6_Witness ==
    /\ Loaded
    /\ url_root # << >>
    /\ url_root[Len(url_root)] = "/"
    /\ \E s \in DocNodes(out_file[1], << >>, << >>) :
          Contains(DictGet(s.node, PathKey), Protocol)
    /\ \E s \in DocNodes(out_file[1], << >>, << >>) :
          /\ Len(s.at) >= 2
          /\ ~Contains(DictGet(s.node, PathKey), Protocol)
          /\ DictHas(s.node, ModifiedKey)

\* p comes before q in the depth-first order: p is a proper prefix of q,
\* or p is smaller where they first differ
ComesBefore(p, q) ==
    \/ /\ Len(p) < Len(q)
       /\ SubSeq(q, 1, Len(p)) = p
    \/ \E i \in 1..Len(p) :
          /\ i <= Len(q)
          /\ SubSeq(p, 1, i - 1) = SubSeq(q, 1, i - 1)
          /\ p[i] < q[i]

\* The child elements of the url element with the tag given
Elements(url, tag) == { j \in 1..Len(url) : url[j].tag = tag }

\* C7: the XML sitemap has one url element per node of the URLSet, nodes
\* of every depth and the top-level ones included, in depth-first order
\* with a node before its descendants; the element has the node's path as
\* its loc, a lastmod exactly when the node has a modified value, and
\* 'monthly' as its changefreq when the node gives none.
C7_OneUrlPerNodeDepthFirst ==
    mpc = "served" =>
        LET nodes == DocNodes(urlset, << >>, << >>)
            Rank(n) == 1 + Cardinality({ m \in nodes : ComesBefore(m.pos, n.pos) })
        IN /\ Len(xml) = Cardinality(nodes)
           /\ \A n \in nodes :
                 LET url == xml[Rank(n)]
                 IN /\ Cardinality(Elements(url, "loc")) = 1
                    /\ \A j \in Elements(url, "loc") :
                          url[j].text = DictGet(n.node, PathKey)
                    /\ Elements(url, "lastmod") # {} <=>
                          DictHas(n.node, ModifiedKey)
                    /\ Cardinality(Elements(url, "lastmod")) <= 1
                    /\ \A j \in Elements(url, "lastmod") :
                          url[j].text = DictGet(n.node, ModifiedKey).iso
                    /\ Cardinality(Elements(url, "changefreq")) = 1
                    /\ ~DictHas(n.node, ChangefreqKey) =>
                          \A j \in Elements(url, "changefreq") :
                              url[j].text = Monthly

\* C7 witness: a URLSet with two top-level nodes, a node two levels down,
\* nodes with and without a modified value has been serialized.
C7_Witness ==
    /\ mpc = "served"
    /\ Len(urlset) = 2
    /\ \E n \in DocNodes(urlset, << >>, << >>) :
          Len(n.at) = 3 /\ DictHas(n.node, ModifiedKey)
    /\ \E n \in DocNodes(urlset, << >>, << >>) :
          Len(n.at) = 1 /\ ~DictHas(n.node, ModifiedKey)
    /\ Len(xml) >= 5

(* ------------------------- claims: the root node ---------------------- *)

\* get_tree has not raised: tree is what it returns or would return
TreeStands == pc \in { "walking", "returned" }

\* An included page file index at the top of the pages directory
HasIncludedRootIndex ==
    \E i \in 1..Len(yielded) :
        /\ yielded[i].path = Index
        /\ ~Excluded(yielded[i].meta)

\* A page file index at the top of the pages directory, included or not
HasRootIndex == \E i \in 1..Len(yielded) : yielded[i].path = Index

\* The configured prefix with a slash put in front if it has none
WithLeadingSlash(p) ==
    IF p # << >> /\ p[1] = "/" THEN p ELSE << "/" >> \o p

\* C11 (as stated): the tree has exactly one top-level entry, keyed by the
\* configured prefix, whose path is the configured prefix; its title is the
\* human name of the site when the site has no root index page.
C11_RootAtConfiguredPrefix ==
    TreeStands =>
        /\ Len(tree) = 1
        /\ tree[1].k = prefix
        /\ tree[1].v.path = prefix
        /\ ~HasRootIndex => tree[1].v.title = SiteHumanName

\* C11 (amended): the tree has exactly one top-level entry; its key and
\* its path are the configured prefix, with a slash put in front when the
\* prefix does not start with one; its title is the human name of the site
\* when the site has no included root index page.
C11_RootAtSlashedPrefix ==
    TreeStands =>
        /\ Len(tree) = 1
        /\ tree[1].k = WithLeadingSlash(prefix)
        /\ tree[1].v.path = WithLeadingSlash(prefix)
        /\ "title" \in DOMAIN tree[1].v
        /\ ~HasIncludedRootIndex => tree[1].v.title = SiteHumanName

\* C11 witness: a site with the empty prefix, two pages and a deleted root
\* index page has been returned under the key "/".
C11_Witness ==
    /\ pc = "returned"
    /\ prefix = << >>
    /\ Len(yielded) >= 2
    /\ HasRootIndex
    /\ ~HasIncludedRootIndex
    /\ tree[1].k = << "/" >>
    /\ tree[1].v.children # << >>

(* ------------------------ claims: double slashes ---------------------- *)

DoubleSlash == << "/", "/" >>

\* C12: neither the parent nor the pattern walk yields for a page holds
\* two consecutive slashes, for every prefix and every page, the pages
\* whose parent is the bare prefix included.
C12_NoDoubleSlash ==
    \A i \in 1..Len(yielded) :
        /\ ~Contains(yielded[i].parent, DoubleSlash)
        /\ ~Contains(yielded[i].pattern, DoubleSlash)

(* ---------------------- claims: hrefs left alone ---------------------- *)

MailtoHelp == << "m", "a", "i", "l", "t", "o", ":", "h", "@", "x" >>

\* The href is empty, holds "://", or starts with "/", "#" or "mailto:"
NotOurs(href) ==
    \/ Len(href) = 0
    \/ \E i \in 1..(Len(href) - 2) :
          SubSeq(href, i, i + 2) = << ":", "/", "/" >>
    \/ Len(href) >= 1 /\ href[1] \in { "/", "#" }
    \/ /\ Len(href) >= 7
       /\ SubSeq(href, 1, 7) = << "m", "a", "i", "l", "t", "o", ":" >>

BeforeFragment(href) ==
    IF \E i \in 1..Len(href) : href[i] = "#"
    THEN SubSeq(href, 1, (CHOOSE i \in 1..Len(href) :
                            /\ href[i] = "#"
                            /\ \A j \in 1..(i - 1) : href[j] # "#") - 1)
    ELSE href

\* What follows the last '/' of the path
LastSegment(p) ==
    LET slashes == { i \in 1..Len(p) : p[i] = "/" }
    IN IF slashes = {} THEN p ELSE SubSeq(p, Max(slashes) + 1, Len(p))

\* The path ends in '.md'
IsMarkdown(p) ==
    /\ Len(p) >= 3
    /\ SubSeq(p, Len(p) - 2, Len(p)) = << ".", "m", "d" >>

CPngFragment == << "t", "o", "/", "c", ".", "p", "n", "g", "#", "s" >>

\* C14: of an href that is not returned as it is, the part before the
\* '#' is a page reference without its extension if it ends in '.md', a
\* page reference as it is if its last segment holds no '.', and a static
\* asset reference otherwise.
C14_PageOrStaticAsset ==
    \A i \in 1..Len(links) :
        ~NotOurs(links[i].href) =>
            LET rest == BeforeFragment(links[i].href)
                l == links[i].link
                page == /\ l.route = SiteName \o << ".", "f", "r", "o", "m", "_",
                                                    "s", "i", "t", "e", "m", "a", "p" >>
                        /\ l.kwarg = Some(<< "p", "a", "g", "e", "_", "p", "a", "t", "h" >>)
                static == /\ l.route = SiteName \o << ".", "s", "t", "a", "t", "i", "c" >>
                          /\ l.kwarg = Some(<< "f", "i", "l", "e", "n", "a", "m", "e" >>)
                AsIs == l.target_path = Some(ResolvedAgainst(DirName(page_path), rest))
            IN IF IsMarkdown(rest)
               THEN /\ page
                    /\ l.target_path =
                           Some(ResolvedAgainst(DirName(page_path),
                                                SubSeq(rest, 1, Len(rest) - 3)))
               ELSE IF "." \notin Chars(LastSegment(rest))
               THEN page /\ AsIs
               ELSE static /\ AsIs

\* C14 witness: a link to an image with a fragment has been translated
\* into a static asset reference.
C14_Witness ==
    \E i \in 1..Len(links) :
        /\ links[i].href = CPngFragment
        /\ links[i].link.kwarg = Some(FilenameKwarg)
        /\ links[i].link.anchor = Some(<< "s" >>)

(* -------------------- claims: the resolved target path ---------------- *)

\* C15: the target path the linker resolves for an href that is not
\* returned as it is never ends with '/'.
C15_NoTrailingSlash ==
    \A i \in 1..Len(links) :
        ~NotOurs(links[i].href) =>
            LET t == links[i].link.target_path[1]
            IN t = << >> \/ t[Len(t)] # "/"

(* --------------------- claims: braces and markers --------------------- *)

\* The text is a template expression between "$jinja " and " jinja$"
IsMarker(body) ==
    /\ Len(body) >= 18
    /\ SubSeq(body, 1, 9) = << "$", "j", "i", "n", "j", "a", " ", "{", "{" >>
    /\ SubSeq(body, Len(body) - 8, Len(body)) = << "}", "}", " ", "j", "i", "n", "j", "a", "$" >>

\* The expression {{ X }} of a marker
Expression(body) == SubSeq(body, 8, Len(body) - 7)

\* The expressions of the markers of the page in their order: those the
\* author wrote and those the dereferencer put into links and images
RECURSIVE MarkerExpressions(_, _)
MarkerExpressions(pp, content) ==
    IF content = << >> THEN << >>
    ELSE LET piece == content[1]
             marker == IF piece.kind = "text" THEN piece.body
                       ELSE LinkDereferencer(pp, piece.body)
         IN (IF IsMarker(marker) THEN << Expression(marker) >> ELSE << >>)
                \o MarkerExpressions(pp, Tail(content))

\* C16: every marker survives rendering as live template syntax: the
\* output of render holds the expression {{ X }} of every link or image
\* the dereferencer has rewritten and of every span $jinja {{ X }} jinja$
\* of the author, without the delimiters and with its braces as they were.
C16_MarkerBecomesLiveExpression ==
    output # None =>
        /\ \A i \in 1..Len(source) :
              /\ (source[i].kind = "text" /\ IsMarker(source[i].body)) =>
                     Contains(output[1], Expression(source[i].body))
              /\ (source[i].kind # "text" /\ ~NotOurs(source[i].body)) =>
                     Contains(output[1],
                              << "\"" >>
                                  \o Expression(LinkDereferencer(page_path,
                                                                 source[i].body))
                                  \o << "\"" >>)
        /\ ~Contains(output[1], DollarJinja)
        /\ ~Contains(output[1], JinjaDollar)

\* A run of braces in its string literal stands at position j of s
QuotedAt(s, j) ==
    LET e == FirstOutside(s, j + 4, BraceChars)
    IN /\ HasAt(s, j, QuoteOpen)
       /\ e > j + 4
       /\ HasAt(s, e, QuoteClose)

\* s from position i on without the runs in string literals
RECURSIVE WithoutQuoted(_, _)
WithoutQuoted(s, i) ==
    LET at == { j \in i..Len(s) : s[j] = "{" /\ QuotedAt(s, j) }
    IN IF at = {} THEN SubSeq(s, i, Len(s))
       ELSE SubSeq(s, i, Least(at) - 1)
                \o WithoutQuoted(s, FirstOutside(s, Least(at) + 4, BraceChars) + 4)

\* The number of characters of s that stand in a run in a string literal
QuotedCount(s) ==
    Cardinality({ k \in 1..Len(s) :
                    /\ s[k] \in BraceChars
                    /\ \E j \in 1..k :
                          /\ s[j] = "{"
                          /\ QuotedAt(s, j)
                          /\ j + 4 <= k
                          /\ k < FirstOutside(s, j + 4, BraceChars) })

\* s from position i on without the occurrences of sub
RECURSIVE WithoutAll(_, _, _)
WithoutAll(s, sub, i) ==
    LET at == { j \in i..Len(s) : HasAt(s, j, sub) }
    IN IF at = {} THEN SubSeq(s, i, Len(s))
       ELSE SubSeq(s, i, Least(at) - 1) \o WithoutAll(s, sub, Least(at) + Len(sub))

\* s without the occurrences of every one of the expressions
RECURSIVE WithoutEach(_, _)
WithoutEach(s, exprs) ==
    IF exprs = << >> THEN s
    ELSE WithoutEach(WithoutAll(s, exprs[1], 1), Tail(exprs))

\* The number of braces and percent signs of the texts of the page that
\* are no markers
RECURSIVE PlainBraces(_)
PlainBraces(content) ==
    IF content = << >> THEN 0
    ELSE (IF content[1].kind = "text" /\ ~IsMarker(content[1].body)
          THEN Cardinality({ k \in 1..Len(content[1].body) :
                               content[1].body[k] \in BraceChars })
          ELSE 0) + PlainBraces(Tail(content))

QuotedX == << "{", "{", " ", "'", "{", "'", " ", "}", "}", "x", "{", "{", " ", "'", "}", "'", " ", "}", "}" >>

\* C17: in the output of render the braces and percent signs of the
\* content that belong to no marker stand in string literals {{ '<run>' }}
\* only: but for those literals and for the expressions of the markers,
\* the output holds no brace and no percent sign.
C17_LiteralBracesQuoted ==
    output # None =>
        LET live == WithoutEach(WithoutQuoted(output[1], 1),
                                MarkerExpressions(page_path, source))
        IN /\ \A k \in 1..Len(live) : live[k] \notin BraceChars
           /\ QuotedCount(output[1]) >= PlainBraces(source)

\* C17 witness: a page with the braces of TeX and a marker has been
\* rendered, the braces in string literals and the marker alive.
C17_Witness ==
    /\ output # None
    /\ Contains(output[1], QuotedX)
    /\ Contains(output[1], RealJinja)
    /\ ~Contains(output[1], DollarJinja)

(* ------------------- claims on do_create_site_map ---------------------- *)

\* The top-level keys of the subtrees merged so far
MergedKeys == UNION { DictKeys(built[i].merged) : i \in 1..Len(built) }

\* No two of the sites merged so far share a top-level key
DistinctTopLevelKeys ==
    \A i, j \in 1..Len(built) :
        i # j => DictKeys(built[i].merged) \cap DictKeys(built[j].merged) = { }

\* C18: the merged sitemap has the top-level keys of the subtrees of all
\* the sites merged so far, each key with the entry of the last site that has
\* it; when no two sites share a top-level key every entry of every subtree
\* is in the sitemap as it was merged, and the sitemap of a single site
\* without server is the tree get_tree returned, which is what is written.
C18_MergedIsUnionOfSubtrees ==
    /\ DictKeys(sitemap) = MergedKeys
    /\ Len(sitemap) = Cardinality(MergedKeys)
    /\ \A i \in 1..Len(built) : \A e \in 1..Len(built[i].merged) :
           LET entry == built[i].merged[e]
           IN (\A j \in (i + 1)..Len(built) :
                   ~DictHas(built[j].merged, entry.k))
              => DictGet(sitemap, entry.k) = entry.v
    /\ DistinctTopLevelKeys =>
           \A i \in 1..Len(built) : \A e \in 1..Len(built[i].merged) :
               \E n \in 1..Len(sitemap) : sitemap[n] = built[i].merged[e]
    /\ (Len(specs) = 1 /\ Len(built) = 1 /\ "server" \notin DOMAIN specs[1])
           => /\ sitemap = GetTree(specs[1].url_prefix, specs[1].pages)
              /\ out_file # None => out_file[1] = JsonDump(built[1].returned)

\* C18 witness: the sitemap of two sites has been written, one of them with
\* a server, their top-level keys distinct and both with pages.
C18_Witness ==
    /\ mpc = "written"
    /\ Len(built) = 2
    /\ DistinctTopLevelKeys
    /\ "server" \in DOMAIN specs[1]
    /\ "server" \notin DOMAIN specs[2]
    /\ \A i \in 1..2 : \E e \in 1..Len(built[i].merged) :
           "children" \in DOMAIN built[i].merged[e].v

\* The spec has the six keys, a name of letters and underscores, a repo
\* with ':', '.git' and 'git@' in it, and no server or one with '://'
WellFormed(spec) ==
    /\ RequiredKeys \subseteq DOMAIN spec
    /\ \A i \in 1..Len(spec.name) : spec.name[i] \in NameChars
    /\ \A part \in { << ":" >>, << ".", "g", "i", "t" >>, << "g", "i", "t", "@" >> } :
           Contains(spec.repo, part)
    /\ "server" \in DOMAIN spec => Contains(spec.server, Protocol)

\* C19: when some site of the spec file does not pass validation, wherever
\* it is listed, no site is ever built, nothing is merged and the output
\* file is never written: the run is validating or has ended on the error.
C19_InvalidSpecAbortsBeforeWork ==
    (\E i \in 1..Len(specs) : ~WellFormed(specs[i]))
        => /\ built = << >>
           /\ sitemap = << >>
           /\ out_file = None
           /\ mpc \in { "validating", "invalid" }
           /\ mpc = "invalid" =>
                  /\ verdicts # << >>
                  /\ verdicts[Len(verdicts)] # "ok"

\* C19 witness: the run has ended on the error of the second site, after
\* the first site has passed, with nothing built and nothing written.
C19_Witness ==
    /\ mpc = "invalid"
    /\ Len(specs) = 2
    /\ WellFormed(specs[1])
    /\ ~WellFormed(specs[2])
    /\ Len(verdicts) = 2
    /\ verdicts[1] = "ok"
    /\ built = << >>
    /\ out_file = None

\* C20: _validate_spec raises on every spec that lacks one of name, repo,
\* source_dir, source_ref, human_name and url_prefix, on every repo that
\* lacks one of ':', '.git' and 'git@', and on every server without '://';
\* it accepts every spec with the six keys, a name of letters and
\* underscores, such a repo, and no server or a server with '://'.
C20_ValidateSpecRaisesOnDefects ==
    \A i \in 1..Len(verdicts) :
        LET spec == specs[i]
        IN /\ (RequiredKeys \ DOMAIN spec) # { } => verdicts[i] # "ok"
           /\ ("repo" \in DOMAIN spec
                  /\ \E part \in { << ":" >>, << ".", "g", "i", "t" >>,
                                   << "g", "i", "t", "@" >> } :
                         ~Contains(spec.repo, part))
                  => verdicts[i] # "ok"
           /\ ("server" \in DOMAIN spec /\ ~Contains(spec.server, Protocol))
                  => verdicts[i] # "ok"
           /\ WellFormed(spec) => verdicts[i] = "ok"

\* C20 witness: a spec file of a site with a server that has passed and a
\* site whose repo has no '.git' that has been refused.
C20_Witness ==
    /\ Len(verdicts) = 2
    /\ "server" \in DOMAIN specs[1]
    /\ verdicts[1] = "ok"
    /\ "repo" \in DOMAIN specs[2]
    /\ ~Contains(specs[2].repo, << ".", "g", "i", "t" >>)
    /\ verdicts[2] = "that does not look like a git repo"

\* C21: _validate_spec accepts the name of a spec only if the name is one
\* or more letters and underscores and nothing else, and raises on every
\* other name.
C21_NameOfLettersAndUnderscores ==
    \A i \in 1..Len(verdicts) :
        "name" \in DOMAIN specs[i] =>
            LET name == specs[i].name
                matches == /\ Len(name) >= 1
                           /\ \A k \in 1..Len(name) : name[k] \in NameChars
            IN /\ verdicts[i] = "ok" => matches
               /\ ~matches => verdicts[i] # "ok"

\* C25: the tree get_tree returned for a site is after the merge of the
\* site, with or without a server, what it was when it was returned: the
\* same paths and the same child keys in every node.
C25_ReturnedTreeImmutable ==
    \A i \in 1..Len(built) : built[i].after = built[i].returned

\* Sites i and j, merged in this order, have a top-level key in common
SharedKeys(i, j) == DictKeys(built[i].merged) \cap DictKeys(built[j].merged)

\* C30: when two sites have the same top-level key, both are merged (the
\* second one is built and merged like any other, no error is raised on
\* the key) and the sitemap holds under that key the entry of the
\* site listed last, whole: it is that site's entry and nothing else, so a
\* child of the earlier site that the later site does not have is not in it.
C30_LaterSiteClobbersEarlier ==
    \A i, j \in 1..Len(built) : i < j =>
        \A key \in SharedKeys(i, j) :
            (\A l \in (j + 1)..Len(built) : ~DictHas(built[l].merged, key))
            => /\ DictGet(sitemap, key) = DictGet(built[j].merged, key)
               /\ Cardinality({ n \in 1..Len(sitemap) : sitemap[n].k = key }) = 1

\* C30 witness: two sites with the same prefix, the same server and
\* different pages have been merged and written; the sitemap holds the
\* second site's entry, in which a child of the first site is missing.
C30_Witness ==
    /\ mpc = "written"
    /\ Len(built) = 2
    /\ "server" \in DOMAIN specs[1]
    /\ \E key \in SharedKeys(1, 2) :
           LET first == DictGet(built[1].merged, key)
               kept == DictGet(sitemap, key)
           IN /\ "children" \in DOMAIN first
              /\ "children" \in DOMAIN kept
              /\ kept = DictGet(built[2].merged, key)
              /\ \E c \in DictKeys(first.children) :
                     ~DictHas(kept.children, c)

\* The URLSet d written as a JSON document again: a datetime is written in
\* ISO-8601 format
RECURSIVE JsonOfUrlset(_)
JsonOfUrlset(d) ==
    [ i \in 1..Len(d) |->
        [k |-> d[i].k,
         v |-> [ j \in 1..Len(d[i].v) |->
                   LET member == d[i].v[j]
                   IN IF member.k = ChildrenKey
                      THEN [k |-> ChildrenKey, v |-> JsonOfUrlset(member.v)]
                      ELSE IF member.k = ModifiedKey
                      THEN [k |-> ModifiedKey, v |-> IsoFormat(member.v)]
                      ELSE member ]] ]

RECURSIVE AsMapping(_)
AsMapping(d) ==
    { [k |-> d[i].k,
       v |-> [ f \in DOMAIN d[i].v |->
                 IF f = "children" THEN AsMapping(d[i].v.children)
                 ELSE d[i].v[f] ]] : i \in 1..Len(d) }

\* The orders in which n pages can be yielded
Orders(n) ==
    { o \in [1..n -> 1..n] : \A i, j \in 1..n : i # j => o[i] # o[j] }

\* The tree get_tree builds when walk yields the pages ys in the order o
RECURSIVE TreeInOrder(_, _, _, _)
TreeInOrder(t, ys, o, i) ==
    IF i > Len(ys) THEN t
    ELSE TreeInOrder(AddPage(t, prefix, ys[o[i]]), ys, o, i + 1)

\* No two of the pages yielded have the same URL pattern
DistinctPatterns ==
    \A i, j \in 1..Len(yielded) :
        i # j => yielded[i].pattern # yielded[j].pattern

\* C26: when the pages walk yields have pairwise distinct URL patterns,
\* the tree get_tree builds is, as a nested mapping, the tree it builds
\* from the same pages yielded in any other order.
C26_TreeIndependentOfOrder ==
    (TreeStands /\ DistinctPatterns) =>
        \A o \in Orders(Len(yielded)) :
            AsMapping(TreeInOrder(InitialTree(prefix), yielded, o, 1))
                = AsMapping(tree)

\* C26 witness: a tree has been returned in which a page that arrived
\* after a page below it has filled in the placeholder made for that page,
\* and has the page below it as child.
C26_Witness ==
    /\ pc = "returned"
    /\ DistinctPatterns
    /\ \E i, j \in 1..Len(yielded) :
          /\ i < j
          /\ ~Skipped(yielded[i].metadata)
          /\ ~Skipped(yielded[j].metadata)
          /\ \E n \in NodesOf(tree, << >>) :
                /\ n.node.path = yielded[j].pattern
                /\ "title" \in DOMAIN n.node
                /\ n.node.title = yielded[j].metadata.title
                /\ DictHas(n.node.children, yielded[i].pattern)

\* The pages yielded that are neither deleted nor of status 300 or more
Kept == SelectSeq(yielded, LAMBDA y : ~Excluded(y.metadata))

\* C27: the tree built from the pages walk has yielded is the tree built
\* from those of them that are neither deleted nor of status 300 or more: a
\* page that is skipped leaves no node behind, no ancestor either.
C27_SkippedPageLeavesNoTrace ==
    TreeStands =>
        tree = TreeInOrder(InitialTree(prefix), Kept,
                           [ i \in 1..Len(Kept) |-> i ], 1)

\* C27 witness: a tree has been returned for a site with a page that is
\* kept and a skipped page two directories down, and holds no node for the
\* skipped page nor for the directory above it.
C27_Witness ==
    /\ pc = "returned"
    /\ Kept # << >>
    /\ \E i \in 1..Len(yielded) :
          /\ Excluded(yielded[i].metadata)
          /\ yielded[i].dir = << "/", "a", "/", "b" >>
          /\ \A n \in NodesOf(tree, << >>) :
                 /\ n.node.path # yielded[i].pattern
                 /\ n.node.path # yielded[i].parent
                 /\ ~EndsWith(n.node.path, << "/", "a" >>)

(* ------------------ claims: keys of children mappings ------------------ *)

\* In the mapping d every node below the top level is stored under its path
KeysArePaths(d) ==
    \A n \in NodesOf(d, << >>) : n.parent # << >> => n.key = n.node.path

\* C28: in the tree get_tree returns, at every depth, every key of a
\* children mapping is the path of the node stored under it, and so it is
\* in the tree arxiv.sitemap.build merges for a site, with the server put
\* in front of keys and paths when the site has one.
C28_ChildKeysArePaths ==
    /\ TreeStands => KeysArePaths(tree)
    /\ \A i \in 1..Len(built) :
          /\ KeysArePaths(built[i].returned)
          /\ KeysArePaths(built[i].merged)
          /\ KeysArePaths(built[i].after)
    /\ KeysArePaths(sitemap)

\* C28 witness: a site with a server has been merged whose tree has nodes
\* three levels deep, stored under keys that begin with the server.
C28_Witness ==
    \E i \in 1..Len(built) :
        /\ "server" \in DOMAIN specs[i]
        /\ \E n \in TreeNodes(built[i].merged, << >>) :
              /\ Len(n.at) = 3
              /\ StartsWith(n.at[3], specs[i].server)
              /\ n.node.path = n.at[3]
        /\ \E n \in TreeNodes(built[i].returned, << >>) :
              /\ Len(n.at) = 3
              /\ n.node.path = n.at[3]

(* ------------------------ claims: serving pages ------------------------ *)

\* The pages of the site stored at the path p
StoredAt(p) == { pg \in site_pages : pg.page_path = p }

\* The path of the index below p
IndexBelow(p) == IF p = << >> THEN Index ELSE p \o << "/" >> \o Index

\* The requests from_sitemap has handled
SitemapRequests ==
    { i \in 1..Len(requests) : requests[i].endpoint = "from_sitemap" }

\* The requests redirect_html has handled
HtmlRequests ==
    { i \in 1..Len(requests) : requests[i].endpoint \in { "html", "htm" } }

\* C22: a request for the path p is answered with the page stored at p
\* when there is one; otherwise with the page stored at p/index when there
\* is one; otherwise, when the index knows no static file p, it ends in
\* not-found.
C22_PageThenIndexThenNotFound ==
    \A i \in SitemapRequests :
        LET p == requests[i].page_path
            r == responses[i]
        IN /\ StoredAt(p) # { } =>
                 /\ r.page = Some(p)
                 /\ \E pg \in StoredAt(p) : r.body = Some(pg.content)
                 /\ ~r.raised
           /\ (StoredAt(p) = { } /\ StoredAt(IndexBelow(p)) # { }) =>
                 /\ r.page = Some(IndexBelow(p))
                 /\ \E pg \in StoredAt(IndexBelow(p)) :
                        r.body = Some(pg.content)
                 /\ ~r.raised
           /\ (StoredAt(p) = { } /\ StoredAt(IndexBelow(p)) = { }
                 /\ p \notin static_index) =>
                 /\ r.raised
                 /\ r.code = 404
                 /\ r.body = None

\* C22 witness: a site that has a page at a and a page at a/index has
\* answered the request for a with the page at a.
C22_Witness ==
    /\ StoredAt(<< "a" >>) # { }
    /\ StoredAt(<< "a", "/" >> \o Index) # { }
    /\ \E i \in SitemapRequests :
          /\ requests[i].page_path = << "a" >>
          /\ responses[i].page = Some(<< "a" >>)
          /\ responses[i].body # None

\* The page the response to request i was made from
Served(i) == CHOOSE pg \in site_pages : Some(pg.page_path) = responses[i].page

\* The response block marks the page deleted
MarkedDeleted(metadata) ==
    /\ "response" \in DOMAIN metadata
    /\ "deleted" \in DOMAIN metadata.response
    /\ metadata.response.deleted = TRUE

\* The response block declares a status
DeclaresStatus(metadata) ==
    /\ "response" \in DOMAIN metadata
    /\ "status" \in DOMAIN metadata.response

\* C23: for a page that exists, from_sitemap answers with 404 when the
\* response block marks the page deleted, whatever status it declares;
\* otherwise with the status the response block declares; otherwise with
\* 200; and the body is the content of the page in all three cases.
C23_DeletedThenStatusThenOk ==
    \A i \in SitemapRequests :
        responses[i].page # None =>
            LET md == Served(i).metadata
                r == responses[i]
            IN /\ r.code = IF MarkedDeleted(md) THEN 404
                           ELSE IF DeclaresStatus(md) THEN md.response.status
                           ELSE 200
               /\ r.body = Some(Served(i).content)

\* C23 witness: a page that is marked deleted and declares the status 301
\* has been served with 404 and its content.
C23_Witness ==
    \E i \in SitemapRequests :
        /\ responses[i].page # None
        /\ MarkedDeleted(Served(i).metadata)
        /\ DeclaresStatus(Served(i).metadata)
        /\ Served(i).metadata.response.status = 301
        /\ responses[i].code = 404
        /\ responses[i].body = Some(Served(i).content)

\* C24: a request for p.html or p.htm is answered with a 302 whose
\* Location is the bare path p when a page is stored at p or at p/index,
\* whatever the response block of that page; and ends in not-found when
\* there is none.
C24_HtmlRedirectsToBarePath ==
    \A i \in HtmlRequests :
        LET p == requests[i].page_path
            r == responses[i]
        IN IF StoredAt(p) # { } \/ StoredAt(IndexBelow(p)) # { }
           THEN /\ r.code = 302
                /\ r.location = Some(<< "/" >> \o p)
                /\ ~r.raised
           ELSE /\ r.raised
                /\ r.code = 404

\* C24 witness: the request for a.html, a being a page that declares the
\* status 301, has been answered with a 302 to /a, and the request for /a
\* that follows with the 301 of the page.
C24_Witness ==
    /\ Len(requests) = 2
    /\ requests[1].endpoint = "html"
    /\ requests[1].page_path = << "a" >>
    /\ responses[1].code = 302
    /\ responses[1].location = Some(<< "/", "a" >>)
    /\ responses[2].code = 301
    /\ responses[2].page = Some(<< "a" >>)

====
